---------------------------- MODULE Spec2Model ----------------------------
(***************************************************************************)
(* A model of the NERD bootstrap compiler (bootstrap/src): the recursive   *)
(* descent parser of parser.c working on the token stream of lexer.c, and  *)
(* the LLVM IR emitter of codegen.c working on the tree the parser built.  *)
(*                                                                         *)
(* Text (lexemes, identifier names, string literals) is a sequence of      *)
(* one-character strings; a token is [type, value]; a tree node is a       *)
(* record with a "type" field named as in nerd.h; an emitted instruction   *)
(* is a record [op, dst, args] whose operands are [r, n] pairs.            *)
(***************************************************************************)
EXTENDS Integers, Sequences, FiniteSets, TLC

VARIABLES
    tokens,   \* the token stream handed to the parser (ends with TOK_EOF)
    pc,       \* the position of the driver in its pipeline
    ast,      \* the tree returned by the parser (NULL when it failed)
    pos,      \* parser->pos after the parse
    diag,     \* what the parser has written to stderr
    gen,      \* the CodeGen structure (with the emitted text) of codegen_llvm
    status,   \* exit status of the command (-1 while it runs)
    source,   \* the input file: whether it can be read, and its characters
    files,    \* the files the command has created and not removed
    child     \* the process that runs the compiled program (run mode)

vars == <<tokens, pc, ast, pos, diag, gen, status, source, files, child>>

-----------------------------------------------------------------------------
(* Tokens: nerd.h TokenType and the keyword table of lexer.c               *)

keywords ==
    << [word |-> <<"f","n">>,                 type |-> "TOK_FN"],
       [word |-> <<"r","e","t">>,             type |-> "TOK_RET"],
       [word |-> <<"t","y","p","e">>,         type |-> "TOK_TYPE"],
       [word |-> <<"i","f">>,                 type |-> "TOK_IF"],
       [word |-> <<"e","l","s","e">>,         type |-> "TOK_ELSE"],
       [word |-> <<"o","r">>,                 type |-> "TOK_OR"],
       [word |-> <<"o","k">>,                 type |-> "TOK_OK"],
       [word |-> <<"e","r","r">>,             type |-> "TOK_ERR"],
       [word |-> <<"l","e","t">>,             type |-> "TOK_LET"],
       [word |-> <<"c","a","l","l">>,         type |-> "TOK_CALL"],
       [word |-> <<"o","u","t">>,             type |-> "TOK_OUT"],
       [word |-> <<"d","o","n","e">>,         type |-> "TOK_DONE"],
       [word |-> <<"r","e","p","e","a","t">>, type |-> "TOK_REPEAT"],
       [word |-> <<"a","s">>,                 type |-> "TOK_AS"],
       [word |-> <<"w","h","i","l","e">>,     type |-> "TOK_WHILE"],
       [word |-> <<"n","e","g">>,             type |-> "TOK_NEG"],
       [word |-> <<"i","n","c">>,             type |-> "TOK_INC"],
       [word |-> <<"d","e","c">>,             type |-> "TOK_DEC"],
       [word |-> <<"n","u","m">>,             type |-> "TOK_NUM"],
       [word |-> <<"i","n","t">>,             type |-> "TOK_INT"],
       [word |-> <<"s","t","r">>,             type |-> "TOK_STR"],
       [word |-> <<"b","o","o","l">>,         type |-> "TOK_BOOL"],
       [word |-> <<"v","o","i","d">>,         type |-> "TOK_VOID"],
       [word |-> <<"p","l","u","s">>,         type |-> "TOK_PLUS"],
       [word |-> <<"m","i","n","u","s">>,     type |-> "TOK_MINUS"],
       [word |-> <<"t","i","m","e","s">>,     type |-> "TOK_TIMES"],
       [word |-> <<"o","v","e","r">>,         type |-> "TOK_OVER"],
       [word |-> <<"m","o","d">>,             type |-> "TOK_MOD"],
       [word |-> <<"e","q">>,                 type |-> "TOK_EQ"],
       [word |-> <<"n","e","q">>,             type |-> "TOK_NEQ"],
       [word |-> <<"l","t">>,                 type |-> "TOK_LT"],
       [word |-> <<"g","t">>,                 type |-> "TOK_GT"],
       [word |-> <<"l","t","e">>,             type |-> "TOK_LTE"],
       [word |-> <<"g","t","e">>,             type |-> "TOK_GTE"],
       [word |-> <<"a","n","d">>,             type |-> "TOK_AND"],
       [word |-> <<"n","o","t">>,             type |-> "TOK_NOT"],
       [word |-> <<"f","i","r","s","t">>,     type |-> "TOK_FIRST"],
       [word |-> <<"s","e","c","o","n","d">>, type |-> "TOK_SECOND"],
       [word |-> <<"t","h","i","r","d">>,     type |-> "TOK_THIRD"],
       [word |-> <<"f","o","u","r","t","h">>, type |-> "TOK_FOURTH"],
       [word |-> <<"z","e","r","o">>,         type |-> "TOK_ZERO"],
       [word |-> <<"o","n","e">>,             type |-> "TOK_ONE"],
       [word |-> <<"t","w","o">>,             type |-> "TOK_TWO"],
       [word |-> <<"t","h","r","e","e">>,     type |-> "TOK_THREE"],
       [word |-> <<"f","o","u","r">>,         type |-> "TOK_FOUR"],
       [word |-> <<"f","i","v","e">>,         type |-> "TOK_FIVE"],
       [word |-> <<"s","i","x">>,             type |-> "TOK_SIX"],
       [word |-> <<"s","e","v","e","n">>,     type |-> "TOK_SEVEN"],
       [word |-> <<"e","i","g","h","t">>,     type |-> "TOK_EIGHT"],
       [word |-> <<"n","i","n","e">>,         type |-> "TOK_NINE"],
       [word |-> <<"t","e","n">>,             type |-> "TOK_TEN"],
       [word |-> <<"m","a","t","h">>,         type |-> "TOK_MATH"],
       [word |-> <<"l","i","s","t">>,         type |-> "TOK_LIST"],
       [word |-> <<"t","i","m","e">>,         type |-> "TOK_TIME"],
       [word |-> <<"h","t","t","p">>,         type |-> "TOK_HTTP"],
       [word |-> <<"j","s","o","n">>,         type |-> "TOK_JSON"] >>

\* The lexeme of a keyword token type (the word the table maps to it).
KwWord(t) == (CHOOSE k \in {keywords[i] : i \in DOMAIN keywords} : k.type = t).word

\* A keyword token as lexer_scan_word adds it: the type of the table, the word as value.
Kw(t) == [type |-> t, value |-> KwWord(t)]
\* An identifier, a string literal (value without the quotes), a numeric literal.
Id(w)     == [type |-> "TOK_IDENT",  value |-> w]
StrTok(w) == [type |-> "TOK_STRING", value |-> w]
NumTok(w) == [type |-> "TOK_NUMBER", value |-> w]
NL  == [type |-> "TOK_NEWLINE", value |-> <<"\\", "n">>]
EOF == [type |-> "TOK_EOF",     value |-> <<>>]

-----------------------------------------------------------------------------
(* Tree nodes: nerd.h struct ASTNode                                       *)

NULL == [type |-> "NULL"]

\* A char* that is NULL (no module, no 'as' name): no name is empty.
NoName == <<>>

\* A pointer to a node that ast_free has already released.
Freed(n) == [type |-> "FREED", was |-> n]

\* atof on the lexeme of a numeric literal [0-9]+(.[0-9]+)?: the integer part as
\* a number, the fraction digits as written.
DigitVal(c) ==
    CASE c = "0" -> 0 [] c = "1" -> 1 [] c = "2" -> 2 [] c = "3" -> 3 [] c = "4" -> 4
      [] c = "5" -> 5 [] c = "6" -> 6 [] c = "7" -> 7 [] c = "8" -> 8 [] c = "9" -> 9
      [] OTHER -> -1

RECURSIVE AtofInt(_, _, _)
AtofInt(w, i, acc) ==
    IF i > Len(w) \/ DigitVal(w[i]) < 0 THEN [int |-> acc, next |-> i]
    ELSE AtofInt(w, i + 1, acc * 10 + DigitVal(w[i]))

RECURSIVE AtofFrac(_, _, _)
AtofFrac(w, i, acc) ==
    IF i > Len(w) \/ DigitVal(w[i]) < 0 THEN acc
    ELSE AtofFrac(w, i + 1, Append(acc, DigitVal(w[i])))

RECURSIVE StripZeros(_)
StripZeros(ds) ==
    IF ds # <<>> /\ ds[Len(ds)] = 0 THEN StripZeros(SubSeq(ds, 1, Len(ds) - 1)) ELSE ds

atof(w) ==
    LET ip == AtofInt(w, 1, 0)
        fr == IF ip.next <= Len(w) /\ w[ip.next] = "." THEN AtofFrac(w, ip.next + 1, <<>>)
              ELSE <<>>
    IN [int |-> ip.int, frac |-> StripZeros(fr)]

Double(n) == [int |-> n, frac |-> <<>>]

-----------------------------------------------------------------------------
(* Parser helpers (parser.c).  A parser state is any record with the       *)
(* fields pos (parser->pos, counted from 0) and diag (the lines written to *)
(* stderr so far); every parse_* operator returns such a record with the   *)
(* node it built (NULL on failure), so a result is also the next state.    *)

R(node, p, d) == [node |-> node, pos |-> p, diag |-> d]

\* A C local variable: K applied to the value v it is initialised with.
Bind(v, K(_)) == K(v)

parser_current(toks, s) == toks[s.pos + 1]
parser_check(toks, s, t) == parser_current(toks, s).type = t
parser_at_end(toks, s) == parser_current(toks, s).type = "TOK_EOF"

\* parser_advance: the position after it (it stays on the EOF token).
parser_advance(toks, s) == IF parser_at_end(toks, s) THEN s.pos ELSE s.pos + 1

\* The state after parser_advance.
Advanced(toks, s) == R(NULL, parser_advance(toks, s), s.diag)

\* parser_match: the state after it (advanced over one token of type t, if there).
parser_match(toks, s, t) ==
    IF parser_check(toks, s, t) THEN R(NULL, parser_advance(toks, s), s.diag) ELSE R(NULL, s.pos, s.diag)

\* parser_expect: [ok, pos, diag]; on a mismatch it writes msg and returns NULL.
parser_expect(toks, s, t, msg) ==
    IF parser_check(toks, s, t)
    THEN [ok |-> TRUE, tok |-> parser_current(toks, s), pos |-> parser_advance(toks, s), diag |-> s.diag]
    ELSE [ok |-> FALSE, tok |-> NULL, pos |-> s.pos, diag |-> Append(s.diag, msg)]

RECURSIVE parser_skip_newlines(_, _)
parser_skip_newlines(toks, s) ==
    IF parser_check(toks, s, "TOK_NEWLINE")
    THEN parser_skip_newlines(toks, parser_match(toks, s, "TOK_NEWLINE"))
    ELSE R(NULL, s.pos, s.diag)

parser_at_end_of_line(toks, s) ==
    parser_check(toks, s, "TOK_NEWLINE") \/ parser_check(toks, s, "TOK_EOF")

is_type_token(toks, s) ==
    parser_current(toks, s).type \in
        {"TOK_NUM", "TOK_INT", "TOK_STR", "TOK_BOOL", "TOK_VOID", "TOK_LIST"}

\* A module test that takes every type name for a module name.
is_module_token_or_type(toks, s) ==
    parser_current(toks, s).type \in
        {"TOK_MATH", "TOK_STR", "TOK_LIST", "TOK_TIME", "TOK_HTTP", "TOK_JSON", "TOK_ERR",
         "TOK_NUM", "TOK_INT", "TOK_BOOL", "TOK_VOID"}

is_module_token(toks, s) ==
    parser_current(toks, s).type \in
        {"TOK_MATH", "TOK_STR", "TOK_LIST", "TOK_TIME", "TOK_HTTP", "TOK_JSON", "TOK_ERR"}

\* A boundary test that knows the keywords but not the operator words.
is_end_of_expr_no_operators(toks, s) ==
    \/ parser_at_end_of_line(toks, s)
    \/ parser_current(toks, s).type \in
        {"TOK_RET", "TOK_LET", "TOK_IF", "TOK_ELSE", "TOK_CALL", "TOK_OUT", "TOK_DONE",
         "TOK_REPEAT", "TOK_AS", "TOK_WHILE"}

is_end_of_expr(toks, s) ==
    \/ parser_at_end_of_line(toks, s)
    \/ parser_current(toks, s).type \in
        {"TOK_PLUS", "TOK_MINUS", "TOK_TIMES", "TOK_OVER", "TOK_MOD", "TOK_EQ",
         "TOK_NEQ", "TOK_LT", "TOK_GT", "TOK_LTE", "TOK_GTE", "TOK_AND",
         "TOK_OR", "TOK_RET", "TOK_LET", "TOK_IF", "TOK_ELSE", "TOK_CALL",
         "TOK_OUT", "TOK_DONE", "TOK_REPEAT", "TOK_AS", "TOK_WHILE"}

NumberWords ==
    <<"TOK_ZERO", "TOK_ONE", "TOK_TWO", "TOK_THREE", "TOK_FOUR", "TOK_FIVE",
      "TOK_SIX", "TOK_SEVEN", "TOK_EIGHT", "TOK_NINE", "TOK_TEN">>

is_number_word(toks, s) ==
    \E i \in 1..Len(NumberWords) : parser_current(toks, s).type = NumberWords[i]

number_word_value(t) ==
    IF \E i \in 1..Len(NumberWords) : NumberWords[i] = t
    THEN (CHOOSE i \in 1..Len(NumberWords) : NumberWords[i] = t) - 1
    ELSE 0

is_positional(toks, s) ==
    parser_current(toks, s).type \in {"TOK_FIRST", "TOK_SECOND", "TOK_THIRD", "TOK_FOURTH"}

\* A positional index counted from one.
positional_index_from_one(t) ==
    CASE t = "TOK_FIRST" -> 1 [] t = "TOK_SECOND" -> 2 [] t = "TOK_THIRD" -> 3
      [] t = "TOK_FOURTH" -> 4 [] OTHER -> 0

positional_index(t) ==
    CASE t = "TOK_FIRST" -> 0 [] t = "TOK_SECOND" -> 1 [] t = "TOK_THIRD" -> 2
      [] t = "TOK_FOURTH" -> 3 [] OTHER -> 0

-----------------------------------------------------------------------------
(* Expressions                                                             *)

BinOp(op, l, r) == [type |-> "NODE_BINOP", op |-> op, left |-> l, right |-> r]
UnaryOp(op, x) == [type |-> "NODE_UNARYOP", op |-> op, operand |-> x]
Call(m, f, args) == [type |-> "NODE_CALL", module |-> m, func |-> f, args |-> args]

parse_primary(toks, s) ==
    LET tok == parser_current(toks, s)
        nxt == parser_advance(toks, s)
    IN CASE tok.type = "TOK_NUMBER" ->
              R([type |-> "NODE_NUM", value |-> atof(tok.value)], nxt, s.diag)
         [] tok.type = "TOK_STRING" ->
              R([type |-> "NODE_STR", value |-> tok.value], nxt, s.diag)
         [] is_number_word(toks, s) ->
              R([type |-> "NODE_NUM", value |-> Double(number_word_value(tok.type))], nxt, s.diag)
         [] is_positional(toks, s) ->
              R([type |-> "NODE_POSITIONAL", index |-> positional_index(tok.type)], nxt, s.diag)
         [] tok.type = "TOK_IDENT" /\ tok.value = <<"t","r","u","e">> ->
              R([type |-> "NODE_BOOL", value |-> TRUE], nxt, s.diag)
         [] tok.type = "TOK_IDENT" /\ tok.value = <<"f","a","l","s","e">> ->
              R([type |-> "NODE_BOOL", value |-> FALSE], nxt, s.diag)
         [] tok.type = "TOK_IDENT" ->
              R([type |-> "NODE_VAR", name |-> tok.value], nxt, s.diag)
         [] OTHER ->
              R(NULL, s.pos, Append(s.diag, "Unexpected token in expression"))

RECURSIVE parse_unary(_, _)
RECURSIVE parse_call_args(_, _, _)

\* The argument loop of parse_call: unary expressions until is_end_of_expr.
\* A failed argument frees the call node: the result node is NULL.
parse_call_args(toks, s, node) ==
    IF is_end_of_expr(toks, s) THEN R(node, s.pos, s.diag)
    ELSE LET Rest(arg) ==
                 IF arg.node = NULL THEN R(NULL, arg.pos, arg.diag)
                 ELSE parse_call_args(toks, arg, [node EXCEPT !.args = Append(@, arg.node)])
         IN Rest(parse_unary(toks, s))

\* The name after 'call' or a module name and then the arguments.
parse_call_name(toks, f, module) ==
    IF ~f.ok THEN R(NULL, f.pos, f.diag)
    ELSE parse_call_args(toks, f, Call(module, f.tok.value, <<>>))

parse_call(toks, s) ==
    IF parser_check(toks, s, "TOK_CALL")
    THEN parse_call_name(toks,
             parser_expect(toks, parser_match(toks, s, "TOK_CALL"), "TOK_IDENT",
                           "Expected function name after call"),
             NoName)
    ELSE IF is_module_token(toks, s)
    THEN parse_call_name(toks,
             parser_expect(toks, Advanced(toks, s), "TOK_IDENT",
                           "Expected function name after module"),
             parser_current(toks, s).value)
    ELSE parse_primary(toks, s)

\* not/neg applied to the operand parsed after it.
unary_of(op, operand) ==
    IF operand.node = NULL THEN operand
    ELSE R(UnaryOp(op, operand.node), operand.pos, operand.diag)

parse_unary(toks, s) ==
    IF parser_check(toks, s, "TOK_NOT")
    THEN unary_of(<<"n","o","t">>, parse_unary(toks, parser_match(toks, s, "TOK_NOT")))
    ELSE IF parser_check(toks, s, "TOK_NEG")
    THEN unary_of(<<"n","e","g">>, parse_unary(toks, parser_match(toks, s, "TOK_NEG")))
    ELSE parse_call(toks, s)

\* The node of "left op right" and the parser state after right.
Join(op, left, right) == R(BinOp(op, left.node, right.node), right.pos, right.diag)

\* A multiplicative level that parses one operand and no operator.
parse_multiplicative_skipped(toks, s) == parse_unary(toks, s)

\* parse_multiplicative: unary operands joined by times, over, mod.
RECURSIVE multiplicative_operand(_, _, _, _)
multiplicative_loop(toks, left) ==
    IF parser_current(toks, left).type \in {"TOK_TIMES", "TOK_OVER", "TOK_MOD"}
    THEN multiplicative_operand(toks, parser_current(toks, left).value, left, Advanced(toks, left))
    ELSE left

\* The operand just parsed: NULL ends the parse, else it is the first operand
\* (no op yet) or the right operand of op, and the loop goes on.
multiplicative_join(toks, op, left, right) ==
    IF right.node = NULL THEN right
    ELSE multiplicative_loop(toks, IF op = NoName THEN right ELSE Join(op, left, right))

multiplicative_operand(toks, op, left, s) == multiplicative_join(toks, op, left, parse_unary(toks, s))

parse_multiplicative(toks, s) == multiplicative_operand(toks, NoName, NULL, s)

RECURSIVE parse_additive(_, _)
\* An additive loop that parses the whole rest as its right operand.
additive_loop_right(toks, left) ==
    IF parser_current(toks, left).type \in {"TOK_PLUS", "TOK_MINUS"}
    THEN LET right == parse_additive(toks, Advanced(toks, left))
         IN IF right.node = NULL THEN right
            ELSE Join(parser_current(toks, left).value, left, right)
    ELSE left

\* parse_additive: multiplicative operands joined by plus, minus.
RECURSIVE additive_operand(_, _, _, _)
additive_loop(toks, left) ==
    IF parser_current(toks, left).type \in {"TOK_PLUS", "TOK_MINUS"}
    THEN additive_operand(toks, parser_current(toks, left).value, left, Advanced(toks, left))
    ELSE left

\* The operand just parsed: NULL ends the parse, else it is the first operand
\* (no op yet) or the right operand of op, and the loop goes on.
additive_join(toks, op, left, right) ==
    IF right.node = NULL THEN right
    ELSE additive_loop(toks, IF op = NoName THEN right ELSE Join(op, left, right))

additive_operand(toks, op, left, s) == additive_join(toks, op, left, parse_multiplicative(toks, s))

parse_additive(toks, s) == additive_operand(toks, NoName, NULL, s)

\* parse_comparison: additive operands joined by a comparison word.
RECURSIVE comparison_operand(_, _, _, _)
comparison_loop(toks, left) ==
    IF parser_current(toks, left).type \in 
           {"TOK_EQ", "TOK_NEQ", "TOK_LT", "TOK_GT", "TOK_LTE", "TOK_GTE"}
    THEN comparison_operand(toks, parser_current(toks, left).value, left, Advanced(toks, left))
    ELSE left

\* The operand just parsed: NULL ends the parse, else it is the first operand
\* (no op yet) or the right operand of op, and the loop goes on.
comparison_join(toks, op, left, right) ==
    IF right.node = NULL THEN right
    ELSE comparison_loop(toks, IF op = NoName THEN right ELSE Join(op, left, right))

comparison_operand(toks, op, left, s) == comparison_join(toks, op, left, parse_additive(toks, s))

parse_comparison(toks, s) == comparison_operand(toks, NoName, NULL, s)

\* parse_and: comparison operands joined by and.
RECURSIVE and_operand(_, _, _, _)
and_loop(toks, left) ==
    IF parser_check(toks, left, "TOK_AND")
    THEN and_operand(toks, <<"a","n","d">>, left, parser_match(toks, left, "TOK_AND"))
    ELSE left

\* The operand just parsed: NULL ends the parse, else it is the first operand
\* (no op yet) or the right operand of op, and the loop goes on.
and_join(toks, op, left, right) ==
    IF right.node = NULL THEN right
    ELSE and_loop(toks, IF op = NoName THEN right ELSE Join(op, left, right))

and_operand(toks, op, left, s) == and_join(toks, op, left, parse_comparison(toks, s))

parse_and(toks, s) == and_operand(toks, NoName, NULL, s)

\* parse_or: and operands joined by or, while or is not the last word of the line.
RECURSIVE or_operand(_, _, _, _)
or_loop(toks, left) ==
    IF parser_check(toks, left, "TOK_OR") /\ ~parser_at_end_of_line(toks, left)
    THEN or_operand(toks, <<"o","r">>, left, Advanced(toks, left))
    ELSE left

\* The operand just parsed: NULL ends the parse, else it is the first operand
\* (no op yet) or the right operand of op, and the loop goes on.
or_join(toks, op, left, right) ==
    IF right.node = NULL THEN right
    ELSE or_loop(toks, IF op = NoName THEN right ELSE Join(op, left, right))

or_operand(toks, op, left, s) == or_join(toks, op, left, parse_and(toks, s))

parse_or(toks, s) == or_operand(toks, NoName, NULL, s)

parse_expr(toks, s) == parse_or(toks, s)

-----------------------------------------------------------------------------
(* Statements                                                              *)

\* ret [ok|err] EXPR up to the value: shared by parse_inline_stmt and parse_stmt.
parse_return(toks, s) ==
    Bind(parser_match(toks, s, "TOK_RET"), LAMBDA a :
    Bind(IF parser_check(toks, a, "TOK_OK") THEN 1
         ELSE IF parser_check(toks, a, "TOK_ERR") THEN 2 ELSE 0, LAMBDA variant :
    Bind(parse_expr(toks, IF variant = 0 THEN a ELSE Advanced(toks, a)), LAMBDA v :
        IF v.node = NULL THEN v
        ELSE R([type |-> "NODE_RETURN", variant |-> variant, value |-> v.node],
               v.pos, v.diag))))

parse_out(toks, s) ==
    Bind(parse_expr(toks, parser_match(toks, s, "TOK_OUT")), LAMBDA v :
        IF v.node = NULL THEN v
        ELSE R([type |-> "NODE_OUT", value |-> v.node], v.pos, v.diag))

parse_let(toks, s) ==
    Bind(parser_expect(toks, parser_match(toks, s, "TOK_LET"), "TOK_IDENT",
                       "Expected variable name"), LAMBDA name_tok :
        IF ~name_tok.ok THEN R(NULL, name_tok.pos, name_tok.diag)
        ELSE Bind(parse_expr(toks, name_tok), LAMBDA v :
                 IF v.node = NULL THEN v
                 ELSE R([type |-> "NODE_LET", name |-> name_tok.tok.value, value |-> v.node],
                        v.pos, v.diag)))

parse_expr_stmt(toks, s) ==
    Bind(parse_expr(toks, s), LAMBDA e :
        IF e.node = NULL THEN e
        ELSE R([type |-> "NODE_EXPR_STMT", expr |-> e.node], e.pos, e.diag))

parse_inline_stmt(toks, s) ==
    CASE parser_check(toks, s, "TOK_RET") -> parse_return(toks, s)
      [] parser_check(toks, s, "TOK_OUT") -> parse_out(toks, s)
      [] parser_check(toks, s, "TOK_LET") -> parse_let(toks, s)
      [] OTHER -> parse_expr_stmt(toks, s)

\* A statement followed by the optional newline parse_stmt consumes after it.
ThenNewline(toks, r) ==
    IF r.node = NULL THEN r ELSE R(r.node, parser_match(toks, r, "TOK_NEWLINE").pos, r.diag)

\* An inc/dec that returns its node with the cursor where it found it.
parse_incdec_in_place(toks, s, t, ntype, msg) ==
    Bind(parser_expect(toks, parser_match(toks, s, t), "TOK_IDENT", msg), LAMBDA var_tok :
        IF ~var_tok.ok THEN R(NULL, var_tok.pos, var_tok.diag)
        ELSE R([type |-> ntype, var_name |-> var_tok.tok.value, amount |-> NULL],
               s.pos, var_tok.diag))

\* inc/dec NAME [EXPR]: the amount is whatever parse_expr returns, NULL included.
parse_incdec(toks, s, t, ntype, msg) ==
    Bind(parser_expect(toks, parser_match(toks, s, t), "TOK_IDENT", msg), LAMBDA var_tok :
        IF ~var_tok.ok THEN R(NULL, var_tok.pos, var_tok.diag)
        ELSE Bind(IF ~parser_at_end_of_line(toks, var_tok) THEN parse_expr(toks, var_tok)
                  ELSE R(NULL, var_tok.pos, var_tok.diag), LAMBDA amt :
                 R([type |-> ntype, var_name |-> var_tok.tok.value, amount |-> amt.node],
                   parser_match(toks, amt, "TOK_NEWLINE").pos, amt.diag)))

\* What an if block keeps of the statements of one arm: the only statement; with
\* several, the first one, which ast_free(block) has released with the others;
\* nothing when the arm is empty.
BlockCarrier(list) ==
    IF Len(list) = 1 THEN list[1]
    ELSE IF Len(list) > 0 THEN Freed(list[1]) ELSE NULL

RECURSIVE parse_stmt(_, _)
RECURSIVE parse_block(_, _, _, _)

\* The statement loops of parse_stmt and parse_func_def: statements until the end
\* of input or a token of stops.  The result's node is the list; ok tells whether
\* every statement parsed.
parse_block(toks, s, stops, list) ==
    IF parser_at_end(toks, s) \/ parser_current(toks, s).type \in stops
    THEN [ok |-> TRUE, node |-> list, pos |-> s.pos, diag |-> s.diag]
    ELSE IF parser_check(toks, s, "TOK_NEWLINE")
    THEN parse_block(toks, parser_match(toks, s, "TOK_NEWLINE"), stops, list)
    ELSE Bind(parse_stmt(toks, s), LAMBDA stmt :
             IF stmt.node = NULL
             THEN [ok |-> FALSE, node |-> list, pos |-> stmt.pos, diag |-> stmt.diag]
             ELSE parse_block(toks, parser_skip_newlines(toks, stmt), stops,
                              Append(list, stmt.node)))

\* The else part of an if block, from the token after the then statements.
parse_if_block_else(toks, s, node) ==
    IF ~parser_check(toks, s, "TOK_ELSE") THEN R(node, s.pos, s.diag)
    ELSE Bind(parser_skip_newlines(toks,
                  parser_match(toks, parser_match(toks, s, "TOK_ELSE"), "TOK_NEWLINE")),
              LAMBDA a :
             IF parser_check(toks, a, "TOK_IF")
             THEN Bind(parse_stmt(toks, a), LAMBDA e :
                      R([node EXCEPT !.else_stmt = e.node], e.pos, e.diag))
             ELSE Bind(parse_block(toks, a, {"TOK_DONE"}, <<>>), LAMBDA blk :
                      IF ~blk.ok THEN R(NULL, blk.pos, blk.diag)
                      ELSE R([node EXCEPT !.else_stmt = BlockCarrier(blk.node)],
                             blk.pos, blk.diag)))

\* The end of an if block: 'done' is expected (and its absence only reported)
\* unless the next token is 'if'.
parse_if_block_done(toks, s) ==
    IF s.node = NULL \/ parser_check(toks, s, "TOK_IF") THEN s
    ELSE Bind(parser_expect(toks, s, "TOK_DONE", "Expected 'done' to end if block"),
              LAMBDA d : R(s.node, parser_match(toks, d, "TOK_NEWLINE").pos, d.diag))

\* The if block after the newline that follows the condition.
parse_if_block(toks, s, node) ==
    Bind(parse_block(toks, parser_skip_newlines(toks, parser_match(toks, s, "TOK_NEWLINE")),
                     {"TOK_ELSE", "TOK_DONE"}, <<>>), LAMBDA blk :
        IF ~blk.ok THEN R(NULL, blk.pos, blk.diag)
        ELSE parse_if_block_done(toks,
                 parse_if_block_else(toks, blk,
                     [node EXCEPT !.then_stmt = BlockCarrier(blk.node)])))

\* The inline if after the condition: a statement and an optional else.
parse_if_inline(toks, s, node) ==
    Bind(parse_inline_stmt(toks, s), LAMBDA t :
        IF t.node = NULL THEN t
        ELSE IF ~parser_check(toks, t, "TOK_ELSE")
        THEN R([node EXCEPT !.then_stmt = t.node],
               parser_match(toks, t, "TOK_NEWLINE").pos, t.diag)
        ELSE Bind(parser_match(toks, t, "TOK_ELSE"), LAMBDA a :
                 IF parser_check(toks, a, "TOK_IF")
                 THEN Bind(parse_stmt(toks, a), LAMBDA e :
                          R([node EXCEPT !.then_stmt = t.node, !.else_stmt = e.node],
                            e.pos, e.diag))
                 ELSE Bind(parse_inline_stmt(toks, a), LAMBDA e :
                          R([node EXCEPT !.then_stmt = t.node, !.else_stmt = e.node],
                            parser_match(toks, e, "TOK_NEWLINE").pos, e.diag))))

\* parse_if with the condition read by parse_expr.
parse_if_full_expression(toks, s) ==
    Bind(parse_expr(toks, parser_match(toks, s, "TOK_IF")), LAMBDA c :
        IF c.node = NULL THEN c
        ELSE IF parser_check(toks, c, "TOK_NEWLINE")
        THEN parse_if_block(toks, c, [type |-> "NODE_IF", condition |-> c.node,
                                      then_stmt |-> NULL, else_stmt |-> NULL])
        ELSE parse_if_inline(toks, c, [type |-> "NODE_IF", condition |-> c.node,
                                       then_stmt |-> NULL, else_stmt |-> NULL]))

parse_if(toks, s) ==
    Bind(parse_comparison(toks, parser_match(toks, s, "TOK_IF")), LAMBDA c :
        IF c.node = NULL THEN c
        ELSE IF parser_check(toks, c, "TOK_NEWLINE")
        THEN parse_if_block(toks, c, [type |-> "NODE_IF", condition |-> c.node,
                                      then_stmt |-> NULL, else_stmt |-> NULL])
        ELSE parse_if_inline(toks, c, [type |-> "NODE_IF", condition |-> c.node,
                                       then_stmt |-> NULL, else_stmt |-> NULL]))

\* The body of a repeat or while loop and its closing 'done'.
parse_loop_body(toks, s, node, msg) ==
    Bind(parse_block(toks, parser_skip_newlines(toks, parser_match(toks, s, "TOK_NEWLINE")),
                     {"TOK_DONE"}, <<>>), LAMBDA blk :
        IF ~blk.ok THEN R(NULL, blk.pos, blk.diag)
        ELSE Bind(parser_expect(toks, blk, "TOK_DONE", msg), LAMBDA d :
                 IF ~d.ok THEN R(NULL, d.pos, d.diag)
                 ELSE R([node EXCEPT !.body = blk.node],
                        parser_match(toks, d, "TOK_NEWLINE").pos, d.diag)))

\* repeat from the optional 'as NAME' on: s is the state after 'times'.
parse_repeat_as(toks, s, node) ==
    IF ~parser_check(toks, s, "TOK_AS")
    THEN parse_loop_body(toks, s, node, "Expected 'done' to end repeat block")
    ELSE Bind(parser_expect(toks, parser_match(toks, s, "TOK_AS"), "TOK_IDENT",
                            "Expected variable name after 'as'"), LAMBDA var_tok :
             IF ~var_tok.ok THEN R(NULL, var_tok.pos, var_tok.diag)
             ELSE parse_loop_body(toks, var_tok,
                                  [node EXCEPT !.var_name = var_tok.tok.value],
                                  "Expected 'done' to end repeat block"))

parse_repeat(toks, s) ==
    Bind(parse_primary(toks, parser_match(toks, s, "TOK_REPEAT")), LAMBDA count :
        IF count.node = NULL THEN count
        ELSE Bind(parser_expect(toks, count, "TOK_TIMES",
                                "Expected 'times' after repeat count"), LAMBDA t :
                 IF ~t.ok THEN R(NULL, t.pos, t.diag)
                 ELSE parse_repeat_as(toks, t,
                          [type |-> "NODE_REPEAT", count |-> count.node,
                           var_name |-> NoName, body |-> <<>>])))

parse_while(toks, s) ==
    Bind(parse_comparison(toks, parser_match(toks, s, "TOK_WHILE")), LAMBDA c :
        IF c.node = NULL THEN c
        ELSE parse_loop_body(toks, c,
                 [type |-> "NODE_WHILE", condition |-> c.node, body |-> <<>>],
                 "Expected 'done' to end while block"))

parse_stmt(toks, s) ==
    CASE parser_check(toks, s, "TOK_RET") -> ThenNewline(toks, parse_return(toks, s))
      [] parser_check(toks, s, "TOK_OUT") -> ThenNewline(toks, parse_out(toks, s))
      [] parser_check(toks, s, "TOK_INC") ->
            parse_incdec(toks, s, "TOK_INC", "NODE_INC", "Expected variable name after 'inc'")
      [] parser_check(toks, s, "TOK_DEC") ->
            parse_incdec(toks, s, "TOK_DEC", "NODE_DEC", "Expected variable name after 'dec'")
      [] parser_check(toks, s, "TOK_IF") -> parse_if(toks, s)
      [] parser_check(toks, s, "TOK_LET") -> ThenNewline(toks, parse_let(toks, s))
      [] parser_check(toks, s, "TOK_REPEAT") -> parse_repeat(toks, s)
      [] parser_check(toks, s, "TOK_WHILE") -> parse_while(toks, s)
      [] OTHER -> ThenNewline(toks, parse_expr_stmt(toks, s))

-----------------------------------------------------------------------------
(* Definitions and the program                                             *)

RECURSIVE parse_params(_, _, _)
parse_params(toks, s, params) ==
    IF ~parser_at_end_of_line(toks, s) /\ parser_check(toks, s, "TOK_IDENT")
    THEN parse_params(toks, Advanced(toks, s),
             Append(params, [type |-> "NODE_PARAM", name |-> parser_current(toks, s).value]))
    ELSE R(params, s.pos, s.diag)

parse_func_def(toks, s) ==
    Bind(parser_expect(toks, parser_expect(toks, s, "TOK_FN", "Expected 'fn'"),
                       "TOK_IDENT", "Expected function name"), LAMBDA name_tok :
        IF ~name_tok.ok THEN R(NULL, name_tok.pos, name_tok.diag)
        ELSE Bind(parse_params(toks, name_tok, <<>>), LAMBDA params :
             Bind(parse_block(toks,
                      parser_skip_newlines(toks, parser_match(toks, params, "TOK_NEWLINE")),
                      {"TOK_FN", "TOK_TYPE"}, <<>>), LAMBDA body :
                 IF ~body.ok THEN R(NULL, body.pos, body.diag)
                 ELSE R([type |-> "NODE_FUNC_DEF", name |-> name_tok.tok.value,
                         params |-> params.node, body |-> body.node],
                        body.pos, body.diag))))

RECURSIVE skip_struct_fields(_, _)
skip_struct_fields(toks, s) ==
    IF ~parser_at_end_of_line(toks, s)
       /\ (is_type_token(toks, s) \/ parser_check(toks, s, "TOK_IDENT"))
    THEN skip_struct_fields(toks, Advanced(toks, s))
    ELSE R(NULL, s.pos, s.diag)

\* An optional type token.
skip_type_token(toks, s) ==
    IF is_type_token(toks, s) THEN Advanced(toks, s) ELSE R(NULL, s.pos, s.diag)

\* ok [TYPE] or err [TYPE]: both expected tokens are only reported when missing.
parse_union(toks, s) ==
    skip_type_token(toks,
        parser_expect(toks,
            parser_expect(toks, skip_type_token(toks, parser_match(toks, s, "TOK_OK")),
                          "TOK_OR", "Expected 'or' in union type"),
            "TOK_ERR", "Expected 'err' in union type"))

parse_type_def(toks, s) ==
    Bind(parser_expect(toks, parser_expect(toks, s, "TOK_TYPE", "Expected 'type'"),
                       "TOK_IDENT", "Expected type name"), LAMBDA name_tok :
        IF ~name_tok.ok THEN R(NULL, name_tok.pos, name_tok.diag)
        ELSE Bind(IF parser_check(toks, name_tok, "TOK_OK") THEN parse_union(toks, name_tok)
                  ELSE skip_struct_fields(toks, name_tok), LAMBDA after :
                 R([type |-> "NODE_TYPE_DEF", name |-> name_tok.tok.value,
                    is_union |-> parser_check(toks, name_tok, "TOK_OK")],
                   parser_match(toks, after, "TOK_NEWLINE").pos, after.diag)))

\* The loop of parser_parse: node is the program built so far.
RECURSIVE parse_top_level(_, _, _)
parse_top_level(toks, s, program) ==
    IF parser_at_end(toks, s) THEN R(program, s.pos, s.diag)
    ELSE IF parser_check(toks, s, "TOK_TYPE")
    THEN Bind(parse_type_def(toks, s), LAMBDA type_def :
             IF type_def.node = NULL THEN type_def
             ELSE parse_top_level(toks, parser_skip_newlines(toks, type_def),
                      [program EXCEPT !.types = Append(@, type_def.node)]))
    ELSE IF parser_check(toks, s, "TOK_FN")
    THEN Bind(parse_func_def(toks, s), LAMBDA func_def :
             IF func_def.node = NULL THEN func_def
             ELSE parse_top_level(toks, parser_skip_newlines(toks, func_def),
                      [program EXCEPT !.functions = Append(@, func_def.node)]))
    ELSE IF parser_check(toks, s, "TOK_NEWLINE")
    THEN parse_top_level(toks, parser_match(toks, s, "TOK_NEWLINE"), program)
    ELSE R(NULL, s.pos, Append(s.diag, "Unexpected token at top level"))

parser_parse(toks) ==
    parse_top_level(toks, parser_skip_newlines(toks, R(NULL, 0, <<>>)),
                    [type |-> "NODE_PROGRAM", types |-> <<>>, functions |-> <<>>])

-----------------------------------------------------------------------------
(* The emitter (codegen.c).  The CodeGen structure is a record; the text   *)
(* written to cg->out is the sequence out of instruction records, the text *)
(* written to stderr the sequence err.                                     *)
(*                                                                         *)
(* Reads the C standard leaves undefined are resolved by the record ub:    *)
(*   uaf  - what a read of a released tree node yields: "stale" (the old   *)
(*          contents), "garbage" (a type no case matches) or "crash";      *)
(*   cmp  - what strcmp on a locals entry that was never written yields:   *)
(*          "differ", "equal" or "crash";                                  *)
(*   reg  - the register number read from such an entry;                  *)
(*   free - what free() of such an entry's name does: "ok" or "crash";     *)
(*   nul  - what "p->type == NODE_RETURN" yields for a NULL p: "ret" (it   *)
(*          holds), "other" (it does not) or "crash".                      *)

\* Operands: a register, slot, parameter, constant, label or global.
Opd(r, n) == [r |-> r, n |-> n, f |-> <<>>]
T(n)      == Opd("t", n)
Local(n)  == Opd("local", n)
Arg(n)    == Opd("arg", n)
Imm(n)    == Opd("imm", n)
NoDst     == Opd("none", 0)

\* One line of output: "dst = op args"; name is a callee, function or comment
\* text, len the array length of a getelementptr or string constant.
I(op, dst, args) == [op |-> op, dst |-> dst, args |-> args, name |-> <<>>, len |-> 0]
IN_(op, dst, args, name) == [op |-> op, dst |-> dst, args |-> args, name |-> name, len |-> 0]
IL(op, dst, args, len) == [op |-> op, dst |-> dst, args |-> args, name |-> <<>>, len |-> len]

\* fprintf to cg->out and to stderr; a process that has crashed writes nothing.
Emit(cg, ins) == IF cg.crashed THEN cg ELSE [cg EXCEPT !.out = Append(@, ins)]
Complain(cg, msg) == IF cg.crashed THEN cg ELSE [cg EXCEPT !.err = Append(@, msg)]

codegen_create(ub) ==
    [out |-> <<>>, err |-> <<>>, temp_counter |-> 0, label_counter |-> 0,
     string_counter |-> 0, param_names |-> <<>>, locals |-> <<>>,
     string_literals |-> <<>>, crashed |-> FALSE, ub |-> ub]

\* next_temp: the register number, and the structure with the counter advanced.
next_temp(cg) == [reg |-> cg.temp_counter, cg |-> [cg EXCEPT !.temp_counter = @ + 1]]

next_label(cg) == [reg |-> cg.label_counter, cg |-> [cg EXCEPT !.label_counter = @ + 1]]

add_local(cg, name, reg) ==
    [cg EXCEPT !.locals = Append(@, [name |-> name, reg |-> reg, init |-> TRUE])]

\* cg->local_count++ alone: the entry's name and register are never written.
skip_local(cg) ==
    [cg EXCEPT !.locals = Append(@, [name |-> NoName, reg |-> 0, init |-> FALSE])]

CRASH == -2

\* find_local from entry i on: the register of the first entry of that name, -1
\* when there is none, CRASH when the comparison itself faults.
RECURSIVE find_local_from(_, _, _)
find_local_from(cg, name, i) ==
    IF i > Len(cg.locals) THEN -1
    ELSE LET e == cg.locals[i]
         IN IF e.init
            THEN IF e.name = name THEN e.reg ELSE find_local_from(cg, name, i + 1)
            ELSE CASE cg.ub.cmp = "equal" -> cg.ub.reg
                   [] cg.ub.cmp = "crash" -> CRASH
                   [] OTHER -> find_local_from(cg, name, i + 1)

find_local(cg, name) == find_local_from(cg, name, 1)

find_param(cg, name) ==
    LET hits == {i \in 1..Len(cg.param_names) : cg.param_names[i] = name}
    IN IF hits = {} THEN -1
       ELSE (CHOOSE i \in hits : \A j \in hits : i <= j) - 1

\* What a read through a node pointer yields: the node, or for a released node
\* what the build makes of it.
ReadNode(cg, n) ==
    IF n.type # "FREED" THEN n
    ELSE CASE cg.ub.uaf = "stale" -> n.was
           [] cg.ub.uaf = "garbage" -> [type |-> "GARBAGE"]
           [] OTHER -> [type |-> "CRASH"]

RECURSIVE collect_strings_expr(_, _)
RECURSIVE collect_strings_exprs(_, _, _)
collect_strings_exprs(cg, list, i) ==
    IF i > Len(list) THEN cg
    ELSE collect_strings_exprs(collect_strings_expr(cg, list[i]), list, i + 1)

collect_strings_expr(cg, node) ==
    CASE node.type = "NODE_STR" ->
            [cg EXCEPT !.string_literals = Append(@, node.value)]
      [] node.type = "NODE_BINOP" ->
            collect_strings_expr(collect_strings_expr(cg, node.left), node.right)
      [] node.type = "NODE_UNARYOP" -> collect_strings_expr(cg, node.operand)
      [] node.type = "NODE_CALL" -> collect_strings_exprs(cg, node.args, 1)
      [] OTHER -> cg

RECURSIVE collect_strings_stmt(_, _)
RECURSIVE collect_strings_stmts(_, _, _)
collect_strings_stmts(cg, list, i) ==
    IF i > Len(list) \/ cg.crashed THEN cg
    ELSE collect_strings_stmts(collect_strings_stmt(cg, list[i]), list, i + 1)

\* collect_strings_stmt on the node that the pointer is read as.
collect_strings_node(cg, node) ==
    CASE node.type = "CRASH" -> [cg EXCEPT !.crashed = TRUE]
      [] node.type = "NODE_OUT" -> collect_strings_expr(cg, node.value)
      [] node.type = "NODE_RETURN" -> collect_strings_expr(cg, node.value)
      [] node.type = "NODE_IF" ->
           collect_strings_stmt(
               collect_strings_stmt(collect_strings_expr(cg, node.condition), node.then_stmt),
               node.else_stmt)
      [] node.type = "NODE_LET" -> collect_strings_expr(cg, node.value)
      [] node.type = "NODE_EXPR_STMT" -> collect_strings_expr(cg, node.expr)
      [] node.type = "NODE_REPEAT" ->
           collect_strings_stmts(collect_strings_expr(cg, node.count), node.body, 1)
      [] node.type = "NODE_WHILE" ->
           collect_strings_stmts(collect_strings_expr(cg, node.condition), node.body, 1)
      [] OTHER -> cg

collect_strings_stmt(cg, pnode) ==
    IF cg.crashed \/ pnode.type = "NULL" THEN cg
    ELSE collect_strings_node(cg, ReadNode(cg, pnode))

collect_strings_func(cg, func) == collect_strings_stmts(cg, func.body, 1)

RECURSIVE collect_strings_from(_, _, _)
collect_strings_from(cg, program, i) ==
    IF i > Len(program.functions) \/ cg.crashed THEN cg
    ELSE collect_strings_from(collect_strings_func(cg, program.functions[i]), program, i + 1)

collect_strings(cg, program) == collect_strings_from(cg, program, 1)

\* clear_locals: it frees every entry's name, also one never written.
clear_locals(cg) ==
    [cg EXCEPT !.locals = <<>>, !.temp_counter = 0,
               !.crashed = @ \/ (cg.ub.free = "crash"
                                 /\ \E i \in 1..Len(cg.locals) : ~cg.locals[i].init)]

\* The two-operand arithmetic operators and the ordered comparisons.
ArithOp(op) ==
    CASE op = <<"p","l","u","s">> -> "fadd"
      [] op = <<"m","i","n","u","s">> -> "fsub"
      [] op = <<"t","i","m","e","s">> -> "fmul"
      [] op = <<"o","v","e","r">> -> "fdiv"
      [] op = <<"m","o","d">> -> "frem"
      [] OTHER -> "none"

CmpOp(op) ==
    CASE op = <<"e","q">> -> "fcmp oeq"
      [] op = <<"n","e","q">> -> "fcmp one"
      [] op = <<"l","t">> -> "fcmp olt"
      [] op = <<"g","t">> -> "fcmp ogt"
      [] op = <<"l","t","e">> -> "fcmp ole"
      [] op = <<"g","t","e">> -> "fcmp oge"
      [] OTHER -> "none"

\* The LLVM intrinsic behind a math function of one and of two arguments.
MathUnary(func) ==
    CASE func = <<"a","b","s">> -> <<"f","a","b","s">>
      [] func \in {<<"s","q","r","t">>, <<"f","l","o","o","r">>, <<"c","e","i","l">>,
                   <<"s","i","n">>, <<"c","o","s">>} -> func
      [] OTHER -> NoName

MathBinary(func) ==
    CASE func = <<"m","i","n">> -> <<"m","i","n","n","u","m">>
      [] func = <<"m","a","x">> -> <<"m","a","x","n","u","m">>
      [] func = <<"p","o","w">> -> func
      [] OTHER -> NoName

\* The result of codegen_expr: the register (-1 on failure) and the structure.
Ret(reg, cg) == [reg |-> reg, cg |-> cg]

\* A numeric constant as fprintf writes it: %.1f for an integral value (every
\* one here is far below 1e15), %e otherwise.
NumOperand(v) ==
    IF v.frac = <<>> THEN Imm(v.int)
    ELSE [r |-> "imm_e", n |-> v.int, f |-> v.frac]

\* "%tN = fadd double 0.0, X" into a fresh register: the constant cases.
emit_constant(cg, x) ==
    Bind(next_temp(cg), LAMBDA t :
        Ret(t.reg, Emit(t.cg, I("fadd", T(t.reg), <<Imm(0), x>>))))

\* A comparison into a fresh i1 register and its conversion into result_reg.
emit_compare(cg, op, result_reg, args) ==
    Bind(next_temp(cg), LAMBDA c :
        Ret(result_reg, Emit(Emit(c.cg, I(op, T(c.reg), args)),
                             I("uitofp", T(result_reg), <<T(c.reg)>>))))

\* and / or: both operands compared with 0.0, combined, converted.
emit_logical(cg, op, result_reg, left_reg, right_reg) ==
    Bind(next_temp(cg), LAMBDA left_bool :
    Bind(next_temp(left_bool.cg), LAMBDA right_bool :
    Bind(next_temp(right_bool.cg), LAMBDA and_reg :
        Ret(result_reg,
            Emit(Emit(Emit(Emit(and_reg.cg,
                I("fcmp one", T(left_bool.reg), <<T(left_reg), Imm(0)>>)),
                I("fcmp one", T(right_bool.reg), <<T(right_reg), Imm(0)>>)),
                I(op, T(and_reg.reg), <<T(left_bool.reg), T(right_bool.reg)>>)),
                I("uitofp", T(result_reg), <<T(and_reg.reg)>>))))))

\* NODE_BINOP once both operands are in registers.
emit_binop(cg, op, left_reg, right_reg) ==
    Bind(next_temp(cg), LAMBDA res :
        CASE ArithOp(op) # "none" ->
               Ret(res.reg, Emit(res.cg, I(ArithOp(op), T(res.reg),
                                           <<T(left_reg), T(right_reg)>>)))
          [] CmpOp(op) # "none" ->
               emit_compare(res.cg, CmpOp(op), res.reg, <<T(left_reg), T(right_reg)>>)
          [] op = <<"a","n","d">> ->
               emit_logical(res.cg, "and", res.reg, left_reg, right_reg)
          [] op = <<"o","r">> ->
               emit_logical(res.cg, "or", res.reg, left_reg, right_reg)
          [] OTHER -> Ret(-1, Complain(res.cg, "Error: Unknown operator")))

\* NODE_UNARYOP once the operand is in a register.
emit_unaryop(cg, op, operand_reg) ==
    Bind(next_temp(cg), LAMBDA res :
        IF op = <<"n","o","t">>
        THEN emit_compare(res.cg, "fcmp oeq", res.reg, <<T(operand_reg), Imm(0)>>)
        ELSE IF op = <<"n","e","g">>
        THEN Ret(res.reg, Emit(res.cg, I("fsub", T(res.reg), <<Imm(0), T(operand_reg)>>)))
        ELSE Ret(res.reg, res.cg))

RECURSIVE codegen_expr(_, _)
RECURSIVE codegen_args(_, _, _, _)

\* The argument loop of a user call: the registers of the arguments in order.
codegen_args(cg, list, i, regs) ==
    IF i > Len(list) THEN [regs |-> regs, cg |-> cg]
    ELSE Bind(codegen_expr(cg, list[i]), LAMBDA a :
             codegen_args(a.cg, list, i + 1, Append(regs, T(a.reg))))

codegen_binop(cg, node) ==
    Bind(codegen_expr(cg, node.left), LAMBDA l :
    Bind(codegen_expr(l.cg, node.right), LAMBDA r :
        IF l.reg < 0 \/ r.reg < 0 THEN Ret(-1, r.cg)
        ELSE emit_binop(r.cg, node.op, l.reg, r.reg)))

codegen_unaryop(cg, node) ==
    Bind(codegen_expr(cg, node.operand), LAMBDA o :
        IF o.reg < 0 THEN Ret(-1, o.cg) ELSE emit_unaryop(o.cg, node.op, o.reg))

\* A call of a user function: result_reg was taken before the arguments.
codegen_user_call(cg, node, result_reg) ==
    Bind(codegen_args(Emit(cg, IN_("comment", NoDst, <<>>, node.func)), node.args, 1, <<>>),
         LAMBDA a :
        Ret(result_reg, Emit(a.cg, IN_("call", T(result_reg), a.regs, node.func))))

\* The placeholder of a module call that is not implemented.
emit_zero(cg, result_reg) ==
    Ret(result_reg, Emit(cg, I("fadd", T(result_reg), <<Imm(0), Imm(0)>>)))

\* A math call with at least one argument.
codegen_math_call(cg, node, result_reg) ==
    Bind(codegen_expr(cg, node.args[1]), LAMBDA arg1 :
        IF MathUnary(node.func) # NoName
        THEN Ret(result_reg, Emit(arg1.cg, IN_("call_intrinsic", T(result_reg),
                                  <<T(arg1.reg)>>, MathUnary(node.func))))
        ELSE IF Len(node.args) > 1
        THEN Bind(codegen_expr(arg1.cg, node.args[2]), LAMBDA arg2 :
                 IF MathBinary(node.func) # NoName
                 THEN Ret(result_reg, Emit(arg2.cg, IN_("call_intrinsic", T(result_reg),
                                  <<T(arg1.reg), T(arg2.reg)>>, MathBinary(node.func))))
                 ELSE emit_zero(arg2.cg, result_reg))
        ELSE emit_zero(arg1.cg, result_reg))

codegen_call(cg, node) ==
    Bind(next_temp(cg), LAMBDA res :
        IF node.module = NoName THEN codegen_user_call(res.cg, node, res.reg)
        ELSE IF node.module = <<"m","a","t","h">> /\ Len(node.args) > 0
        THEN codegen_math_call(Emit(res.cg, IN_("comment", NoDst, <<>>,
                                                node.module \o <<".">> \o node.func)),
                               node, res.reg)
        ELSE emit_zero(Emit(res.cg, IN_("comment", NoDst, <<>>,
                                        node.module \o <<".">> \o node.func)),
                       res.reg))

codegen_var(cg, node) ==
    Bind(find_local(cg, node.name), LAMBDA local_reg :
        IF local_reg = CRASH THEN Ret(-1, [cg EXCEPT !.crashed = TRUE])
        ELSE IF local_reg >= 0
        THEN Bind(next_temp(cg), LAMBDA t :
                 Ret(t.reg, Emit(t.cg, I("load", T(t.reg), <<Local(local_reg)>>))))
        ELSE Bind(find_param(cg, node.name), LAMBDA param_idx :
                 IF param_idx >= 0 THEN emit_constant(cg, Arg(param_idx))
                 ELSE Ret(-1, Complain(cg, "Error: Unknown variable"))))

codegen_expr(cg, node) ==
    IF cg.crashed THEN Ret(-1, cg)
    ELSE CASE node.type = "NULL" -> Ret(-1, cg)
           [] node.type = "NODE_NUM" -> emit_constant(cg, NumOperand(node.value))
           [] node.type = "NODE_STR" ->
                emit_constant(Emit(cg, IN_("comment", NoDst, <<>>, node.value)), Imm(0))
           [] node.type = "NODE_BOOL" -> emit_constant(cg, Imm(IF node.value THEN 1 ELSE 0))
           [] node.type = "NODE_VAR" -> codegen_var(cg, node)
           [] node.type = "NODE_POSITIONAL" -> emit_constant(cg, Arg(node.index))
           [] node.type = "NODE_BINOP" -> codegen_binop(cg, node)
           [] node.type = "NODE_UNARYOP" -> codegen_unaryop(cg, node)
           [] node.type = "NODE_CALL" -> codegen_call(cg, node)
           [] OTHER -> Ret(-1, Complain(cg, "Error: Unknown expression node type"))

\* A label line and the branches to labels.
Label(kind, n) == I("label", NoDst, <<Opd(kind, n)>>)
Br(kind, n) == I("br", NoDst, <<Opd(kind, n)>>)
BrCond(reg, k1, n1, k2, n2) == I("br i1", NoDst, <<T(reg), Opd(k1, n1), Opd(k2, n2)>>)

\* "p->type == NODE_RETURN" on an arm of an if: p may be NULL or released.
\* The result is "yes", "no" or "crash".
ArmReturns(cg, p) ==
    IF p.type = "NULL"
    THEN CASE cg.ub.nul = "ret" -> "yes" [] cg.ub.nul = "other" -> "no" [] OTHER -> "crash"
    ELSE IF ReadNode(cg, p).type = "CRASH" THEN "crash"
    ELSE IF ReadNode(cg, p).type = "NODE_RETURN" THEN "yes" ELSE "no"

\* An arm that is closed by a branch whatever its statement is.
ArmEndAlways(cg, p, end_label) == Emit(cg, Br("end", end_label))

\* The branch to the end label after an arm that is not a return.
ArmEnd(cg, p, end_label) ==
    IF cg.crashed THEN cg
    ELSE IF ArmReturns(cg, p) = "crash" THEN [cg EXCEPT !.crashed = TRUE]
    ELSE IF ArmReturns(cg, p) = "no" THEN Emit(cg, Br("end", end_label)) ELSE cg

RECURSIVE codegen_stmt(_, _)
RECURSIVE codegen_stmts(_, _, _)

\* The body loops of codegen_stmt: the statements of list from the i-th on.
codegen_stmts(cg, list, i) ==
    IF i > Len(list) THEN cg
    ELSE codegen_stmts(codegen_stmt(cg, list[i]), list, i + 1)

codegen_return(cg, node) ==
    Bind(codegen_expr(cg, node.value), LAMBDA v :
        IF v.reg >= 0 THEN Emit(v.cg, I("ret", NoDst, <<T(v.reg)>>)) ELSE v.cg)

\* NODE_IF from the first branch on: the registers and labels are taken.
codegen_if_arms(cg, node, bool_reg, then_label, else_label, end_label) ==
    IF node.else_stmt.type # "NULL"
    THEN Emit(ArmEnd(codegen_stmt(Emit(ArmEnd(codegen_stmt(Emit(Emit(cg,
                 BrCond(bool_reg, "then", then_label, "else", else_label)),
                 Label("then", then_label)),
             node.then_stmt), node.then_stmt, end_label),
                 Label("else", else_label)),
             node.else_stmt), node.else_stmt, end_label),
                 Label("end", end_label))
    ELSE Emit(ArmEnd(codegen_stmt(Emit(Emit(cg,
                 BrCond(bool_reg, "then", then_label, "end", end_label)),
                 Label("then", then_label)),
             node.then_stmt), node.then_stmt, end_label),
                 Label("end", end_label))

codegen_if(cg, node) ==
    Bind(codegen_expr(cg, node.condition), LAMBDA cond_reg :
        IF cond_reg.reg < 0 THEN cond_reg.cg
        ELSE Bind(next_temp(cond_reg.cg), LAMBDA bool_reg :
             Bind(next_label(bool_reg.cg), LAMBDA then_label :
             Bind(next_label(then_label.cg), LAMBDA else_label :
             Bind(next_label(else_label.cg), LAMBDA end_label :
                 codegen_if_arms(
                     Emit(end_label.cg,
                          I("fcmp one", T(bool_reg.reg), <<T(cond_reg.reg), Imm(0)>>)),
                     node, bool_reg.reg, then_label.reg, else_label.reg, end_label.reg))))))

codegen_let(cg, node) ==
    Bind(codegen_expr(cg, node.value), LAMBDA v :
        IF v.reg < 0 THEN v.cg
        ELSE Bind(find_local(v.cg, node.name), LAMBDA existing :
                 IF existing = CRASH THEN [v.cg EXCEPT !.crashed = TRUE]
                 ELSE IF existing >= 0
                 THEN Emit(v.cg, I("store", NoDst, <<T(v.reg), Local(existing)>>))
                 ELSE Bind(Len(v.cg.locals), LAMBDA local_id :
                          add_local(Emit(Emit(v.cg, I("alloca", Local(local_id), <<>>)),
                                         I("store", NoDst, <<T(v.reg), Local(local_id)>>)),
                                    node.name, local_id))))

\* A loop end that compares the counter again without incrementing it.
codegen_repeat_end_no_increment(cg, counter_id, loop_start, loop_end) ==
    Emit(Emit(cg, Br("loop_start", loop_start)), Label("loop_end", loop_end))

\* NODE_REPEAT after the body: the counter is incremented and the loop closed.
codegen_repeat_end(cg, counter_id, loop_start, loop_end) ==
    Bind(next_temp(cg), LAMBDA inc_load :
    Bind(next_temp(inc_load.cg), LAMBDA inc_add :
        Emit(Emit(Emit(Emit(Emit(inc_add.cg,
            I("load", T(inc_load.reg), <<Local(counter_id)>>)),
            I("fadd", T(inc_add.reg), <<T(inc_load.reg), Imm(1)>>)),
            I("store", NoDst, <<T(inc_add.reg), Local(counter_id)>>)),
            Br("loop_start", loop_start)),
            Label("loop_end", loop_end))))

\* NODE_REPEAT from the counter's slot on: the slot is allocated and set to 1;
\* with a name it becomes a local, without one only local_count moves.
codegen_repeat_loop(cg, node, count_reg, loop_start, loop_body, loop_end, counter_id) ==
    codegen_repeat_end(
        codegen_stmts(
            Bind(Emit(Emit(cg, I("alloca", Local(counter_id), <<>>)),
                      I("store", NoDst, <<Imm(1), Local(counter_id)>>)), LAMBDA slot :
            Bind(next_temp(
                     Emit(Emit(IF node.var_name # NoName
                               THEN add_local(slot, node.var_name, counter_id)
                               ELSE skip_local(slot),
                          Br("loop_start", loop_start)),
                          Label("loop_start", loop_start))), LAMBDA counter_val :
            Bind(next_temp(counter_val.cg), LAMBDA cmp :
                Emit(Emit(Emit(Emit(cmp.cg,
                    I("load", T(counter_val.reg), <<Local(counter_id)>>)),
                    I("fcmp ole", T(cmp.reg), <<T(counter_val.reg), T(count_reg)>>)),
                    BrCond(cmp.reg, "loop_body", loop_body, "loop_end", loop_end)),
                    Label("loop_body", loop_body))))),
            node.body, 1),
        counter_id, loop_start, loop_end)

codegen_repeat(cg, node) ==
    Bind(codegen_expr(cg, node.count), LAMBDA count :
        IF count.reg < 0 THEN count.cg
        ELSE Bind(next_label(count.cg), LAMBDA loop_start :
             Bind(next_label(loop_start.cg), LAMBDA loop_body :
             Bind(next_label(loop_body.cg), LAMBDA loop_end :
                 codegen_repeat_loop(loop_end.cg, node, count.reg, loop_start.reg,
                                     loop_body.reg, loop_end.reg,
                                     Len(loop_end.cg.locals))))))

\* A while loop whose condition is evaluated once, in front of while_start.
codegen_while_loop_condition_once(cg, node, loop_start, loop_body, loop_end) ==
    Bind(codegen_expr(cg, node.condition), LAMBDA cond_reg :
        IF cond_reg.reg < 0 THEN cond_reg.cg
        ELSE Bind(next_temp(cond_reg.cg), LAMBDA bool_reg :
                 Emit(Emit(codegen_stmts(Emit(Emit(Emit(Emit(Emit(bool_reg.cg,
                     Br("while_start", loop_start)),
                     Label("while_start", loop_start)),
                     I("fcmp one", T(bool_reg.reg), <<T(cond_reg.reg), Imm(0)>>)),
                     BrCond(bool_reg.reg, "while_body", loop_body, "while_end", loop_end)),
                     Label("while_body", loop_body)),
                   node.body, 1),
                     Br("while_start", loop_start)),
                     Label("while_end", loop_end))))

\* NODE_WHILE from the condition on.
codegen_while_loop(cg, node, loop_start, loop_body, loop_end) ==
    Bind(codegen_expr(Emit(Emit(cg, Br("while_start", loop_start)),
                           Label("while_start", loop_start)),
                      node.condition), LAMBDA cond_reg :
        IF cond_reg.reg < 0 THEN cond_reg.cg
        ELSE Bind(next_temp(cond_reg.cg), LAMBDA bool_reg :
                 Emit(Emit(codegen_stmts(Emit(Emit(Emit(bool_reg.cg,
                     I("fcmp one", T(bool_reg.reg), <<T(cond_reg.reg), Imm(0)>>)),
                     BrCond(bool_reg.reg, "while_body", loop_body, "while_end", loop_end)),
                     Label("while_body", loop_body)),
                   node.body, 1),
                     Br("while_start", loop_start)),
                     Label("while_end", loop_end))))

codegen_while(cg, node) ==
    Bind(next_label(cg), LAMBDA loop_start :
    Bind(next_label(loop_start.cg), LAMBDA loop_body :
    Bind(next_label(loop_body.cg), LAMBDA loop_end :
        codegen_while_loop(loop_end.cg, node, loop_start.reg, loop_body.reg,
                           loop_end.reg))))

\* NODE_INC and NODE_DEC: op is fadd or fsub, msg the complaint.
codegen_incdec(cg, node, op, msg) ==
    Bind(find_local(cg, node.var_name), LAMBDA existing :
        IF existing = CRASH THEN [cg EXCEPT !.crashed = TRUE]
        ELSE IF existing < 0 THEN Complain(cg, msg)
        ELSE Bind(next_temp(cg), LAMBDA load :
             Bind(IF node.amount.type # "NULL"
                  THEN codegen_expr(Emit(load.cg, I("load", T(load.reg), <<Local(existing)>>)),
                                    node.amount)
                  ELSE emit_constant(Emit(load.cg, I("load", T(load.reg), <<Local(existing)>>)),
                                     Imm(1)), LAMBDA amount :
             Bind(next_temp(amount.cg), LAMBDA res :
                 Emit(Emit(res.cg, I(op, T(res.reg), <<T(load.reg), T(amount.reg)>>)),
                      I("store", NoDst, <<T(res.reg), Local(existing)>>))))))

codegen_out(cg, node) ==
    IF node.value.type = "NODE_STR"
    THEN Bind(next_temp([cg EXCEPT !.string_counter = @ + 1]), LAMBDA ptr :
             Emit(Emit(ptr.cg,
                 IL("getelementptr", T(ptr.reg), <<Opd("str", cg.string_counter)>>,
                    Len(node.value.value) + 1)),
                 IN_("printf", NoDst, <<T(ptr.reg)>>, <<"f","m","t","_","s","t","r">>)))
    ELSE Bind(codegen_expr(cg, node.value), LAMBDA v :
             IF v.reg >= 0
             THEN Emit(v.cg, IN_("printf", NoDst, <<T(v.reg)>>, <<"f","m","t","_","n","u","m">>))
             ELSE v.cg)

\* codegen_stmt on the node that the pointer is read as.
codegen_stmt_node(cg, node) ==
    CASE node.type = "CRASH" -> [cg EXCEPT !.crashed = TRUE]
      [] node.type = "NODE_RETURN" -> codegen_return(cg, node)
      [] node.type = "NODE_IF" -> codegen_if(cg, node)
      [] node.type = "NODE_LET" -> codegen_let(cg, node)
      [] node.type = "NODE_EXPR_STMT" -> codegen_expr(cg, node.expr).cg
      [] node.type = "NODE_REPEAT" -> codegen_repeat(cg, node)
      [] node.type = "NODE_WHILE" -> codegen_while(cg, node)
      [] node.type = "NODE_INC" ->
           codegen_incdec(cg, node, "fadd", "Error: Unknown variable in inc")
      [] node.type = "NODE_DEC" ->
           codegen_incdec(cg, node, "fsub", "Error: Unknown variable in dec")
      [] node.type = "NODE_OUT" -> codegen_out(cg, node)
      [] OTHER -> Complain(cg, "Error: Unknown statement node type")

codegen_stmt(cg, pnode) ==
    IF cg.crashed \/ pnode.type = "NULL" THEN cg
    ELSE codegen_stmt_node(cg, ReadNode(cg, pnode))

\* The body loop of codegen_func: the structure and has_return.
RECURSIVE codegen_body(_, _, _, _)
codegen_body(cg, list, i, has_return) ==
    IF i > Len(list) THEN [cg |-> cg, has_return |-> has_return]
    ELSE codegen_body(codegen_stmt(cg, list[i]), list, i + 1,
                      has_return \/ list[i].type = "NODE_RETURN")

\* codegen_func up to the entry label.
codegen_func_entry(cg, func) ==
    Emit(Emit([clear_locals(cg) EXCEPT
                   !.param_names = [i \in 1..Len(func.params) |-> func.params[i].name]],
              IN_("define", NoDst, [i \in 1..Len(func.params) |-> Arg(i - 1)], func.name)),
         Label("entry", 0))

\* codegen_func after the body: the default return and the closing brace.
codegen_func_exit(body) ==
    [Emit(IF ~body.has_return THEN Emit(body.cg, I("ret", NoDst, <<Imm(0)>>)) ELSE body.cg,
          I("}", NoDst, <<>>))
     EXCEPT !.param_names = <<>>]

codegen_func(cg, func) ==
    codegen_func_exit(codegen_body(codegen_func_entry(cg, func), func.body, 1, FALSE))

\* The bytes of a string constant as the table writes them.
RECURSIVE EscapeString(_, _)
EscapeString(s, j) ==
    IF j > Len(s) THEN <<"\\", "0", "0">>
    ELSE (CASE s[j] = "\\" -> <<"\\", "5", "C">>
            [] s[j] = "\"" -> <<"\\", "2", "2">>
            [] s[j] = "\n" -> <<"\\", "0", "A">>
            [] s[j] = "\t" -> <<"\\", "0", "9">>
            [] OTHER -> <<s[j]>>) \o EscapeString(s, j + 1)

\* The loop that writes the string table: @.str<i-1> for the i-th literal.
RECURSIVE emit_string_table(_, _)
emit_string_table(cg, i) ==
    IF i > Len(cg.string_literals) THEN cg
    ELSE emit_string_table(
             Emit(cg, [op |-> "constant", dst |-> Opd("str", i - 1), args |-> <<>>,
                       name |-> EscapeString(cg.string_literals[i], 1),
                       len |-> Len(cg.string_literals[i]) + 1]),
             i + 1)

RECURSIVE codegen_funcs(_, _, _)
codegen_funcs(cg, program, i) ==
    IF i > Len(program.functions) THEN cg
    ELSE codegen_funcs(codegen_func(cg, program.functions[i]), program, i + 1)

\* codegen_free: it frees the name of every locals entry, like clear_locals.
codegen_free(cg) ==
    [cg EXCEPT !.crashed = @ \/ (cg.ub.free = "crash"
                                 /\ \E i \in 1..Len(cg.locals) : ~cg.locals[i].init)]

\* The declarations codegen_llvm writes before the program's own text.
Header ==
    << IN_("declare", NoDst, <<>>, <<"f","a","b","s">>),
       IN_("declare", NoDst, <<>>, <<"s","q","r","t">>),
       IN_("declare", NoDst, <<>>, <<"f","l","o","o","r">>),
       IN_("declare", NoDst, <<>>, <<"c","e","i","l">>),
       IN_("declare", NoDst, <<>>, <<"s","i","n">>),
       IN_("declare", NoDst, <<>>, <<"c","o","s">>),
       IN_("declare", NoDst, <<>>, <<"p","o","w">>),
       IN_("declare", NoDst, <<>>, <<"m","i","n","n","u","m">>),
       IN_("declare", NoDst, <<>>, <<"m","a","x","n","u","m">>),
       IN_("declare", NoDst, <<>>, <<"p","r","i","n","t","f">>),
       IN_("format", NoDst, <<>>, <<"f","m","t","_","n","u","m">>),
       IN_("format", NoDst, <<>>, <<"f","m","t","_","s","t","r">>),
       IN_("format", NoDst, <<>>, <<"f","m","t","_","i","n","t">>) >>

\* codegen_llvm with the output file opened and the structure allocated: the
\* value it returns and the structure as it is just before codegen_free.
codegen_llvm(program, ub) ==
    [ok |-> TRUE,
     cg |-> codegen_free(
                codegen_funcs(
                    emit_string_table(
                        collect_strings([codegen_create(ub) EXCEPT !.out = Header], program),
                        1),
                    program, 1))]

-----------------------------------------------------------------------------
(* Lexer (lexer.c).  A lexer state is a record with the fields source (the  *)
(* characters of the file), pos (lexer->pos, counted from 0), tokens and ok *)
(* (FALSE once a scan has failed).                                          *)

LowerCase ==
    {"a","b","c","d","e","f","g","h","i","j","k","l","m",
     "n","o","p","q","r","s","t","u","v","w","x","y","z"}
UpperCase ==
    {"A","B","C","D","E","F","G","H","I","J","K","L","M",
     "N","O","P","Q","R","S","T","U","V","W","X","Y","Z"}

is_alpha(c) == c \in LowerCase \cup UpperCase \cup {"_"}
is_digit(c) == c \in {"0","1","2","3","4","5","6","7","8","9"}
is_alnum(c) == is_alpha(c) \/ is_digit(c)

\* The '\0' that lexer_current and lexer_peek return past the end.
NUL == "NUL"

lexer_create(text) == [source |-> text, pos |-> 0, tokens |-> <<>>, ok |-> TRUE]

lexer_current(lexer) ==
    IF lexer.pos >= Len(lexer.source) THEN NUL ELSE lexer.source[lexer.pos + 1]

lexer_peek(lexer) ==
    IF lexer.pos + 1 >= Len(lexer.source) THEN NUL ELSE lexer.source[lexer.pos + 2]

lexer_advance(lexer) ==
    IF lexer.pos < Len(lexer.source) THEN [lexer EXCEPT !.pos = @ + 1] ELSE lexer

\* The token's value is the len characters of the source from start.
lexer_add_token(lexer, type, start, len) ==
    [lexer EXCEPT !.tokens = Append(@, [type |-> type,
                                        value |-> SubSeq(lexer.source, start + 1, start + len)])]

\* The first entry of the table with that word, TOK_IDENT when there is none.
lookup_keyword(word) ==
    IF \E i \in 1..Len(keywords) : keywords[i].word = word
    THEN keywords[CHOOSE i \in 1..Len(keywords) :
                      /\ keywords[i].word = word
                      /\ \A j \in 1..(i - 1) : keywords[j].word # word].type
    ELSE "TOK_IDENT"

\* while (is_alnum(current)) advance;  while (is_digit(current)) advance
RECURSIVE skip_alnum(_)
skip_alnum(lexer) ==
    IF is_alnum(lexer_current(lexer)) THEN skip_alnum(lexer_advance(lexer)) ELSE lexer

RECURSIVE skip_digits(_)
skip_digits(lexer) ==
    IF is_digit(lexer_current(lexer)) THEN skip_digits(lexer_advance(lexer)) ELSE lexer

\* The comment loop taking the newline that ends the comment with it.
RECURSIVE skip_comment_and_newline(_)
skip_comment_and_newline(lexer) ==
    IF lexer_current(lexer) = NUL THEN lexer
    ELSE IF lexer_current(lexer) = "\n" THEN lexer_advance(lexer)
    ELSE skip_comment_and_newline(lexer_advance(lexer))

\* The comment loop: up to the newline or the end.
RECURSIVE skip_comment(_)
skip_comment(lexer) ==
    IF lexer_current(lexer) \notin {"\n", NUL} THEN skip_comment(lexer_advance(lexer))
    ELSE lexer

lexer_scan_word(lexer) ==
    Bind(skip_alnum(lexer), LAMBDA end :
        [lexer_add_token(end,
                         lookup_keyword(SubSeq(lexer.source, lexer.pos + 1, end.pos)),
                         lexer.pos, end.pos - lexer.pos)
         EXCEPT !.pos = end.pos])

\* The decimal part is taken only when a digit follows the point.
lexer_scan_number(lexer) ==
    Bind(skip_digits(lexer), LAMBDA int_end :
    Bind(IF lexer_current(int_end) = "." /\ is_digit(lexer_peek(int_end))
         THEN skip_digits(lexer_advance(int_end)) ELSE int_end, LAMBDA end :
        lexer_add_token(end, "TOK_NUMBER", lexer.pos, end.pos - lexer.pos)))

\* The loop of lexer_scan_string with no backslash escape: the next quote ends it.
RECURSIVE string_loop_no_escape(_)
string_loop_no_escape(lexer) ==
    IF lexer_current(lexer) \in {"\"", NUL} THEN lexer
    ELSE IF lexer_current(lexer) = "\n" THEN [lexer EXCEPT !.ok = FALSE]
    ELSE string_loop_no_escape(lexer_advance(lexer))

\* The loop of lexer_scan_string from the character after the opening quote:
\* it stops in front of the closing quote or at the end, and fails at a newline.
RECURSIVE string_loop(_)
string_loop(lexer) ==
    IF lexer_current(lexer) \in {"\"", NUL} THEN lexer
    ELSE IF lexer_current(lexer) = "\n" THEN [lexer EXCEPT !.ok = FALSE]
    ELSE IF lexer_current(lexer) = "\\" /\ lexer_peek(lexer) = "\""
    THEN string_loop(lexer_advance(lexer_advance(lexer)))
    ELSE string_loop(lexer_advance(lexer))

\* lexer_scan_string with the opening quote left in the token's value.
lexer_scan_string_with_quote(lexer) ==
    Bind(string_loop(lexer_advance(lexer)), LAMBDA end :
        IF ~end.ok \/ lexer_current(end) = NUL THEN [end EXCEPT !.ok = FALSE]
        ELSE lexer_advance(lexer_add_token(end, "TOK_STRING", lexer.pos,
                                           end.pos - lexer.pos)))

lexer_scan_string(lexer) ==
    Bind(string_loop(lexer_advance(lexer)), LAMBDA end :
        IF ~end.ok \/ lexer_current(end) = NUL THEN [end EXCEPT !.ok = FALSE]
        ELSE lexer_advance(lexer_add_token(end, "TOK_STRING", lexer.pos + 1,
                                           end.pos - (lexer.pos + 1))))

\* One iteration of the loop of lexer_tokenize, from the character at pos.
lexer_step(lexer) ==
    Bind(lexer_current(lexer), LAMBDA c :
        IF c \in {" ", "\t", "\r"} THEN lexer_advance(lexer)
        ELSE IF c = "\n"
        THEN lexer_advance(
                 [lexer EXCEPT !.tokens = Append(@, [type |-> "TOK_NEWLINE",
                                                     value |-> <<"\\", "n">>])])
        ELSE IF (c = "-" /\ lexer_peek(lexer) = "-") \/ c = "#" THEN skip_comment(lexer)
        ELSE IF c = "\"" THEN lexer_scan_string(lexer)
        ELSE IF is_digit(c) THEN lexer_scan_number(lexer)
        ELSE IF is_alpha(c) THEN lexer_scan_word(lexer)
        ELSE [lexer EXCEPT !.ok = FALSE])

\* lexer_add_token(lexer, TOK_EOF, "", 0) after the loop.
lexer_add_eof(lexer) ==
    [lexer EXCEPT !.tokens = Append(@, [type |-> "TOK_EOF", value |-> <<>>])]

\* The loop of lexer_tokenize and the TOK_EOF it adds at the end.
RECURSIVE lexer_tokenize(_)
lexer_tokenize(lexer) ==
    IF ~lexer.ok THEN lexer
    ELSE IF lexer.pos >= Len(lexer.source) THEN lexer_add_eof(lexer)
    ELSE lexer_tokenize(lexer_step(lexer))

-----------------------------------------------------------------------------
(* Inputs of the checks on expressions                                     *)

MaxExprLen == 4

RECURSIVE SeqsUpTo(_, _)
\* Every sequence over S of length 1..n.
SeqsUpTo(S, n) ==
    IF n = 0 THEN {}
    ELSE LET shorter == SeqsUpTo(S, n - 1)
         IN {<<x>> : x \in S} \cup shorter \cup {Append(w, x) : w \in shorter, x \in S}

NameA == <<"a">>
NameB == <<"b">>
NameF == <<"f">>
NameX == <<"x">>
NameY == <<"y">>

\* One token of each kind parse_primary accepts.
Primaries ==
    { Id(NameA), NumTok(<<"4", "2">>), NumTok(<<"2", ".", "5", "0">>),
      StrTok(<<"h", "i">>), Kw("TOK_SEVEN"), Kw("TOK_THIRD"),
      Id(<<"t","r","u","e">>), Id(<<"f","a","l","s","e">>) }

FewPrimaries == { Id(NameB), Kw("TOK_ONE"), StrTok(<<"s">>) }

BinaryOpTypes ==
    {"TOK_OR", "TOK_AND", "TOK_EQ", "TOK_NEQ", "TOK_LT", "TOK_GT", "TOK_LTE", "TOK_GTE",
     "TOK_PLUS", "TOK_MINUS", "TOK_TIMES", "TOK_OVER", "TOK_MOD"}

\* A op1 B op2 C
TripleInputs ==
    { <<A, Kw(o1), B, Kw(o2), C, EOF>> :
        A \in Primaries, B \in FewPrimaries, C \in FewPrimaries,
        o1 \in BinaryOpTypes, o2 \in BinaryOpTypes }

\* call f A op B
CallInputs ==
    { <<Kw("TOK_CALL"), Id(NameF), A, Kw(o), B, EOF>> :
        A \in FewPrimaries, B \in FewPrimaries, o \in BinaryOpTypes }

KeywordTypes == { keywords[i].type : i \in 1..Len(keywords) }

\* Every kind of token in front of "f a".
LeadInputs ==
    { <<t, Id(NameF), Id(NameA), EOF>> :
        t \in {Kw(k) : k \in KeywordTypes} \cup Primaries \cup {NL} }

ExprAlphabet ==
    { Id(NameA), Kw("TOK_PLUS"), Kw("TOK_TIMES"), Kw("TOK_LT"), Kw("TOK_AND"), Kw("TOK_OR"),
      Kw("TOK_NOT"), Kw("TOK_CALL"), Kw("TOK_MATH"), NL }

FreeInputs(len) == { Append(w, EOF) : w \in SeqsUpTo(ExprAlphabet, len) }

ExprInputs(len) == TripleInputs \cup CallInputs \cup LeadInputs \cup FreeInputs(len)

NoUB == [uaf |-> "stale", cmp |-> "differ", reg |-> 0, free |-> "ok", nul |-> "crash"]

\* The specifications that start from the token stream leave the text out.
NoSource == [readable |-> TRUE, text |-> <<>>]

\* No compiled program runs.
NoChild == [state |-> "none"]

InitExpr ==
    /\ tokens \in ExprInputs(MaxExprLen)
    /\ pc = "expr"
    /\ ast = NULL
    /\ pos = 0
    /\ diag = <<>>
    /\ gen = codegen_create(NoUB)
    /\ status = -1
    /\ source = NoSource
    /\ files = {}
    /\ child = NoChild

\* parse_expr on the token stream, from its first token.
ParseExpr ==
    /\ pc = "expr"
    /\ LET r == parse_expr(tokens, R(NULL, 0, <<>>))
       IN /\ ast' = r.node
          /\ pos' = r.pos
          /\ diag' = r.diag
    /\ pc' = "expr_done"
    /\ UNCHANGED <<tokens, gen, status, source, files, child>>

\* parse_call on a token stream that starts a call.
ParseCall ==
    /\ pc = "expr"
    /\ tokens[1].type = "TOK_CALL" \/ is_module_token(tokens, R(NULL, 0, <<>>))
    /\ LET r == parse_call(tokens, R(NULL, 0, <<>>))
       IN /\ ast' = r.node
          /\ pos' = r.pos
          /\ diag' = r.diag
    /\ pc' = "call_done"
    /\ UNCHANGED <<tokens, gen, status, source, files, child>>

NextExpr == ParseExpr \/ ParseCall

SpecExpr == InitExpr /\ [][NextExpr]_vars

-----------------------------------------------------------------------------
(* The compile command (main.c cmd_compile) on whole programs              *)

MaxLines == 2

\* The lines a function body is drawn from; a is the parameter of f.
Lines ==
    { <<Kw("TOK_RET"), Id(NameX), NL>>,
      <<Kw("TOK_RET"), Id(NameA), NL>>,
      <<Kw("TOK_RET"), Kw("TOK_ONE"), NL>>,
      <<Kw("TOK_LET"), Id(NameX), Kw("TOK_ONE"), NL>>,
      <<Kw("TOK_LET"), Id(NameX), Id(NameX), NL>>,
      <<Kw("TOK_LET"), Id(NameX), StrTok(<<"s">>), NL>>,
      <<Kw("TOK_OUT"), StrTok(<<"h", "i">>), NL>>,
      <<Kw("TOK_OUT"), Id(NameX), NL>>,
      <<Kw("TOK_INC"), Id(NameX), NL>>,
      <<Kw("TOK_DEC"), Id(NameX), StrTok(<<"s">>), NL>>,
      <<Kw("TOK_CALL"), Id(NameF), StrTok(<<"s">>), Id(NameX), NL>>,
      <<Kw("TOK_MATH"), Id(<<"m","a","x">>), Id(NameA), NumTok(<<"2", ".", "5">>), NL>>,
      \* loops, with a return in the body
      <<Kw("TOK_REPEAT"), Kw("TOK_TWO"), Kw("TOK_TIMES"), Kw("TOK_AS"), Id(NameX), NL,
        Kw("TOK_LET"), Id(NameX), Kw("TOK_ONE"), NL, Kw("TOK_DONE"), NL>>,
      <<Kw("TOK_REPEAT"), Kw("TOK_TWO"), Kw("TOK_TIMES"), Kw("TOK_AS"), Id(NameX), NL,
        Kw("TOK_OUT"), Id(NameX), NL, Kw("TOK_DONE"), NL>>,
      <<Kw("TOK_REPEAT"), Kw("TOK_TWO"), Kw("TOK_TIMES"), NL,
        Kw("TOK_RET"), Kw("TOK_ONE"), NL, Kw("TOK_DONE"), NL>>,
      <<Kw("TOK_REPEAT"), Kw("TOK_TWO"), Kw("TOK_TIMES"), NL,
        Kw("TOK_OUT"), StrTok(<<"h", "i">>), NL>>,
      <<Kw("TOK_WHILE"), Id(NameA), Kw("TOK_LT"), Kw("TOK_TWO"), NL,
        Kw("TOK_RET"), Id(NameA), NL, Kw("TOK_DONE"), NL>>,
      \* inline if
      <<Kw("TOK_IF"), Id(NameA), Kw("TOK_RET"), Kw("TOK_ONE"),
        Kw("TOK_ELSE"), Kw("TOK_RET"), Kw("TOK_TWO"), NL>>,
      <<Kw("TOK_IF"), Id(NameA), Kw("TOK_OUT"), StrTok(<<"h", "i">>), NL>>,
      <<Kw("TOK_IF"), Id(NameA), Kw("TOK_RET"), Kw("TOK_ONE"), Kw("TOK_ELSE"), NL>>,
      \* if blocks: closed, two statements, empty, with else, not closed
      <<Kw("TOK_IF"), Id(NameA), NL, Kw("TOK_RET"), Kw("TOK_ONE"), NL, Kw("TOK_DONE"), NL>>,
      <<Kw("TOK_IF"), Id(NameA), NL, Kw("TOK_LET"), Id(NameX), Kw("TOK_ONE"), NL,
        Kw("TOK_RET"), Id(NameX), NL, Kw("TOK_DONE"), NL>>,
      <<Kw("TOK_IF"), Id(NameA), NL, Kw("TOK_DONE"), NL>>,
      <<Kw("TOK_IF"), Id(NameA), NL, Kw("TOK_RET"), Kw("TOK_ONE"), NL,
        Kw("TOK_ELSE"), NL, Kw("TOK_RET"), Kw("TOK_TWO"), NL, Kw("TOK_DONE"), NL>>,
      <<Kw("TOK_IF"), Id(NameA), NL, Kw("TOK_RET"), Kw("TOK_ONE"), NL>>,
      \* an amount that does not parse, in front of the next definition
      <<Kw("TOK_INC"), Id(NameX), Kw("TOK_FN"), Id(NameB), NL>>,
      \* definitions
      <<Kw("TOK_FN"), Id(NameB), Id(NameX), NL>>,
      <<Kw("TOK_TYPE"), Id(NameY), Kw("TOK_OK"), Kw("TOK_NUM"), Kw("TOK_OR"),
        Kw("TOK_ERR"), Kw("TOK_STR"), NL>>,
      <<Kw("TOK_TYPE"), Id(NameY), Kw("TOK_OK"), Kw("TOK_NUM"), NL>>,
      <<Kw("TOK_TYPE"), Id(NameY), Kw("TOK_NUM"), Id(NameX), NL>>,
      \* text no rule accepts
      <<Kw("TOK_DONE"), NL>>,
      <<Kw("TOK_LET"), Kw("TOK_ONE"), NL>> }

RECURSIVE Flatten(_)
Flatten(ls) == IF ls = <<>> THEN <<>> ELSE Head(ls) \o Flatten(Tail(ls))

\* "fn f a", up to MaxLines lines, end of input.
ProgramInputs(lines) ==
    { <<Kw("TOK_FN"), Id(NameF), Id(NameA), NL>> \o Flatten(ls) \o <<EOF>> :
        ls \in {<<>>} \cup SeqsUpTo(Lines, lines) }

\* Where a program makes the emitter read through a released node, a locals
\* entry never written, or a NULL arm.
RECURSIVE HasFreed(_)
HasFreedIn(list) == \E i \in 1..Len(list) : HasFreed(list[i])
HasFreed(n) ==
    CASE n.type = "FREED" -> TRUE
      [] n.type = "NODE_IF" -> HasFreed(n.then_stmt) \/ HasFreed(n.else_stmt)
      [] n.type \in {"NODE_REPEAT", "NODE_WHILE", "NODE_FUNC_DEF"} -> HasFreedIn(n.body)
      [] n.type = "NODE_PROGRAM" -> HasFreedIn(n.functions)
      [] OTHER -> FALSE

RECURSIVE HasNameless(_)
HasNamelessIn(list) == \E i \in 1..Len(list) : HasNameless(list[i])
HasNameless(n) ==
    CASE n.type = "FREED" -> HasNameless(n.was)
      [] n.type = "NODE_IF" -> HasNameless(n.then_stmt) \/ HasNameless(n.else_stmt)
      [] n.type = "NODE_REPEAT" -> n.var_name = NoName \/ HasNamelessIn(n.body)
      [] n.type \in {"NODE_WHILE", "NODE_FUNC_DEF"} -> HasNamelessIn(n.body)
      [] n.type = "NODE_PROGRAM" -> HasNamelessIn(n.functions)
      [] OTHER -> FALSE

RECURSIVE HasNullArm(_)
HasNullArmIn(list) == \E i \in 1..Len(list) : HasNullArm(list[i])
HasNullArm(n) ==
    CASE n.type = "FREED" -> HasNullArm(n.was)
      [] n.type = "NODE_IF" ->
            n.then_stmt.type = "NULL" \/ HasNullArm(n.then_stmt) \/ HasNullArm(n.else_stmt)
      [] n.type \in {"NODE_REPEAT", "NODE_WHILE", "NODE_FUNC_DEF"} -> HasNullArmIn(n.body)
      [] n.type = "NODE_PROGRAM" -> HasNullArmIn(n.functions)
      [] OTHER -> FALSE

\* The outcomes a build can give to the undefined reads of a program.
UBChoices(program) ==
    { u \in [uaf : IF HasFreed(program) THEN {"stale", "garbage", "crash"} ELSE {"stale"},
             cmp : IF HasNameless(program) THEN {"differ", "equal", "crash"} ELSE {"differ"},
             reg : IF HasNameless(program) THEN {-1, 0, 1} ELSE {0},
             free : IF HasNameless(program) THEN {"ok", "crash"} ELSE {"ok"},
             nul : IF HasNullArm(program) THEN {"ret", "other", "crash"} ELSE {"crash"}] :
        u.cmp # "equal" => u.reg = 0 }

Init ==
    /\ tokens \in ProgramInputs(MaxLines)
    /\ pc = "start"
    /\ ast = NULL
    /\ pos = 0
    /\ diag = <<>>
    /\ gen = codegen_create(NoUB)
    /\ status = -1
    /\ source = NoSource
    /\ files = {}
    /\ child = NoChild

\* ASTNode *ast = parser_parse(parser)
ParserParse ==
    /\ pc = "start"
    /\ LET r == parser_parse(tokens)
       IN /\ ast' = r.node
          /\ pos' = r.pos
          /\ diag' = r.diag
          /\ pc' = IF r.node = NULL THEN "parse_failed" ELSE "parsed"
    /\ UNCHANGED <<tokens, gen, status, source, files, child>>

\* codegen_llvm(&ctx, output_path): fopen fails and it returns false, or the
\* file is created and the process dies in the emitter or the emitter returns.
Codegen(output_path, generated, failed) ==
    \/ /\ pc' = failed
       /\ UNCHANGED <<gen, files>>
    \/ /\ files' = files \cup {output_path}
       /\ \E ub \in UBChoices(ast) :
             LET r == codegen_llvm(ast, ub)
             IN /\ gen' = r.cg
                /\ pc' = IF r.cg.crashed THEN "killed"
                         ELSE IF r.ok THEN generated ELSE failed

\* The output file of compile mode (the -o argument or the input's name with
\* the extension .ll).
OutputFile == "output.ll"

CodegenLlvm ==
    /\ pc = "parsed"
    /\ Codegen(OutputFile, "generated", "codegen_failed")
    /\ UNCHANGED <<tokens, ast, pos, diag, status, source, child>>

\* The returns of cmd_compile: 1 when there is no tree or no output, else 0 after
\* "Compiled"; the final ast_free releases a released node a second time.
CmdCompileReturn ==
    /\ pc \in {"read_failed", "lex_failed", "parse_failed", "codegen_failed", "generated"}
    /\ \E survives \in IF pc = "generated" /\ HasFreed(ast) THEN BOOLEAN ELSE {TRUE} :
          /\ pc' = IF survives THEN "exit" ELSE "killed"
          /\ status' = IF ~survives THEN status ELSE IF pc = "generated" THEN 0 ELSE 1
    /\ UNCHANGED <<tokens, ast, pos, diag, gen, source, files, child>>

Next == ParserParse \/ CodegenLlvm \/ CmdCompileReturn

Spec == Init /\ [][Next]_vars

\* The parser alone on the same inputs.
NextParse == ParserParse

SpecParse == Init /\ [][NextParse]_vars

-----------------------------------------------------------------------------
(* The compile command on functions of up to MaxParams parameters          *)

MaxParams == 4

NameC == <<"c">>
NameD == <<"d">>

\* The words a body returns: a positional word or a name.
ReturnedWords ==
    { Kw(k) : k \in {"TOK_FIRST", "TOK_SECOND", "TOK_THIRD", "TOK_FOURTH"} }
        \cup { Id(n) : n \in {NameA, NameB, NameC, NameD} }

\* "fn f P1 .. Pn", "ret W", end of input; names may repeat in a header.
ParamInputs(params) ==
    { <<Kw("TOK_FN"), Id(NameF)>> \o [i \in 1..Len(ps) |-> Id(ps[i])]
          \o <<NL, Kw("TOK_RET"), w, NL, EOF>> :
        ps \in {<<>>} \cup SeqsUpTo({NameA, NameB, NameC, NameD}, params),
        w \in ReturnedWords }

InitParams ==
    /\ tokens \in ParamInputs(MaxParams)
    /\ pc = "start"
    /\ ast = NULL
    /\ pos = 0
    /\ diag = <<>>
    /\ gen = codegen_create(NoUB)
    /\ status = -1
    /\ source = NoSource
    /\ files = {}
    /\ child = NoChild

SpecParams == InitParams /\ [][Next]_vars

-----------------------------------------------------------------------------
(* The compile command on functions made of if statements                  *)

MaxIfLines == 2

\* The lines of the body of f: if/else with two returns, inline and as a
\* block, with a return of an unknown name, with an arm that is no return,
\* without else, nested in an else arm, and plain statements.
IfLines ==
    { <<Kw("TOK_IF"), Id(NameA), Kw("TOK_RET"), Kw("TOK_ONE"),
        Kw("TOK_ELSE"), Kw("TOK_RET"), Kw("TOK_TWO"), NL>>,
      <<Kw("TOK_IF"), Id(NameA), Kw("TOK_RET"), Id(NameA),
        Kw("TOK_ELSE"), Kw("TOK_RET"), Id(NameX), NL>>,
      <<Kw("TOK_IF"), Id(NameA), NL, Kw("TOK_RET"), Kw("TOK_ONE"), NL,
        Kw("TOK_ELSE"), NL, Kw("TOK_RET"), Kw("TOK_TWO"), NL, Kw("TOK_DONE"), NL>>,
      <<Kw("TOK_IF"), Id(NameA), Kw("TOK_RET"), Kw("TOK_ONE"),
        Kw("TOK_ELSE"), Kw("TOK_OUT"), StrTok(<<"h", "i">>), NL>>,
      <<Kw("TOK_IF"), Id(NameA), Kw("TOK_OUT"), Id(NameX),
        Kw("TOK_ELSE"), Kw("TOK_RET"), Kw("TOK_ONE"), NL>>,
      <<Kw("TOK_IF"), Id(NameA), Kw("TOK_RET"), Kw("TOK_ONE"), NL>>,
      <<Kw("TOK_IF"), Id(NameA), Kw("TOK_RET"), Kw("TOK_ONE"), Kw("TOK_ELSE"),
        Kw("TOK_IF"), Id(NameA), Kw("TOK_RET"), Kw("TOK_ONE"),
        Kw("TOK_ELSE"), Kw("TOK_RET"), Kw("TOK_TWO"), NL>>,
      <<Kw("TOK_RET"), Id(NameA), NL>>,
      <<Kw("TOK_LET"), Id(NameX), Kw("TOK_ONE"), NL>>,
      <<Kw("TOK_OUT"), Id(NameX), NL>> }

IfInputs(lines) ==
    { <<Kw("TOK_FN"), Id(NameF), Id(NameA), NL>> \o Flatten(ls) \o <<EOF>> :
        ls \in {<<>>} \cup SeqsUpTo(IfLines, lines) }

InitIf ==
    /\ tokens \in IfInputs(MaxIfLines)
    /\ pc = "start"
    /\ ast = NULL
    /\ pos = 0
    /\ diag = <<>>
    /\ gen = codegen_create(NoUB)
    /\ status = -1
    /\ source = NoSource
    /\ files = {}
    /\ child = NoChild

SpecIf == InitIf /\ [][Next]_vars

-----------------------------------------------------------------------------
(* The compile command on functions made of blocks that open and close      *)

MaxFragments == 4

\* What opens, continues and closes a block: an if block with one statement
\* and with none yet, the else-if and the else that follow one, 'done', the
\* heads of the two loops, and a return.
Fragments ==
    { <<Kw("TOK_IF"), Id(NameA), NL, Kw("TOK_RET"), Kw("TOK_ONE"), NL>>,
      <<Kw("TOK_IF"), Id(NameA), NL>>,
      <<Kw("TOK_ELSE"), Kw("TOK_IF"), Id(NameA), NL, Kw("TOK_RET"), Kw("TOK_TWO"), NL>>,
      <<Kw("TOK_ELSE"), NL, Kw("TOK_OUT"), Id(NameA), NL>>,
      <<Kw("TOK_DONE"), NL>>,
      <<Kw("TOK_REPEAT"), Kw("TOK_TWO"), Kw("TOK_TIMES"), Kw("TOK_AS"), Id(NameX), NL>>,
      <<Kw("TOK_WHILE"), Id(NameA), NL>>,
      <<Kw("TOK_RET"), Id(NameA), NL>> }

\* "fn f a", up to so many fragments, end of input.
BlockInputs(fragments) ==
    { <<Kw("TOK_FN"), Id(NameF), Id(NameA), NL>> \o Flatten(fs) \o <<EOF>> :
        fs \in {<<>>} \cup SeqsUpTo(Fragments, fragments) }

InitBlocks ==
    /\ tokens \in BlockInputs(MaxFragments)
    /\ pc = "start"
    /\ ast = NULL
    /\ pos = 0
    /\ diag = <<>>
    /\ gen = codegen_create(NoUB)
    /\ status = -1
    /\ source = NoSource
    /\ files = {}
    /\ child = NoChild

SpecBlocks == InitBlocks /\ [][Next]_vars

-----------------------------------------------------------------------------
(* The compile command on one if or while statement and its condition       *)

MaxCondLen == 4

\* The words a condition is written with: a name, a number word, a
\* comparison, the two logical words and 'not'.
CondWords ==
    { Id(NameA), Kw("TOK_ONE"), Kw("TOK_LT"), Kw("TOK_AND"), Kw("TOK_OR"), Kw("TOK_NOT") }

\* What follows the condition: a statement on the same line, or a block.
CondTails ==
    { <<Kw("TOK_RET"), Kw("TOK_ONE"), NL>>,
      <<NL, Kw("TOK_RET"), Kw("TOK_ONE"), NL, Kw("TOK_DONE"), NL>> }

\* "fn f a", then 'if' or 'while', a condition of up to so many words, what
\* follows it, end of input.
CondInputs(len) ==
    { <<Kw("TOK_FN"), Id(NameF), Id(NameA), NL, Kw(k)>> \o c \o t \o <<EOF>> :
        k \in {"TOK_IF", "TOK_WHILE"}, c \in SeqsUpTo(CondWords, len), t \in CondTails }

InitCond ==
    /\ tokens \in CondInputs(MaxCondLen)
    /\ pc = "start"
    /\ ast = NULL
    /\ pos = 0
    /\ diag = <<>>
    /\ gen = codegen_create(NoUB)
    /\ status = -1
    /\ source = NoSource
    /\ files = {}
    /\ child = NoChild

SpecCond == InitCond /\ [][Next]_vars

-----------------------------------------------------------------------------
(* The compile command from the input file on: read_file and the lexer     *)

\* The first lines of an input file: a function of one parameter and of none,
\* one after a comment, and a number where the function's name is expected.
SourceHeads ==
    { <<"f", "n", " ", "f", " ", "a", "\n">>,
      <<"f", "n", " ", "f", "\n">>,
      <<"#", " ", "c", "\n", "f", "n", " ", "f", " ", "a", "\n">>,
      <<"f", "n", " ", "1", "\n">> }

\* The rest of the file: returns of a parameter, of literals, of an unknown name
\* and of nothing, an unterminated string, a character no token starts with, an
\* if block that is not closed, nothing, and an out between tab and comment.
SourceBodies ==
    { <<"r", "e", "t", " ", "a", "\n">>,
      <<"r", "e", "t", " ", "2", ".", "5", "\n">>,
      <<"r", "e", "t", " ", "\"", "s", "\"", "\n">>,
      <<"r", "e", "t", " ", "\"", "s", "\n">>,
      <<"r", "e", "t", " ", "a", "+", "1", "\n">>,
      <<"r", "e", "t", " ", "x", "\n">>,
      <<"i", "f", " ", "a", "\n", "r", "e", "t", " ", "o", "n", "e", "\n">>,
      <<"r", "e", "t", "\n">>,
      <<>>,
      <<"\t", "o", "u", "t", " ", "1", " ", "-", "-", " ", "c", "\n">> }

\* The input file: it cannot be opened, or it holds one of the texts.
CompileSources ==
    { [readable |-> r, text |-> h \o b] : r \in BOOLEAN, h \in SourceHeads, b \in SourceBodies }

InitCompile ==
    /\ source \in CompileSources
    /\ tokens = <<>>
    /\ pc = "read"
    /\ ast = NULL
    /\ pos = 0
    /\ diag = <<>>
    /\ gen = codegen_create(NoUB)
    /\ status = -1
    /\ files = {}
    /\ child = NoChild

\* char *source = read_file(input_file, &source_len); if (!source) return 1;
ReadFile ==
    /\ pc = "read"
    /\ pc' = IF source.readable THEN "lex" ELSE "read_failed"
    /\ UNCHANGED <<tokens, ast, pos, diag, gen, status, source, files, child>>

\* lexer_create and lexer_tokenize: the parser gets lexer->tokens.
LexerTokenize ==
    /\ pc = "lex"
    /\ LET lexer == lexer_tokenize(lexer_create(source.text))
       IN /\ tokens' = lexer.tokens
          /\ pc' = IF lexer.ok THEN "start" ELSE "lex_failed"
    /\ UNCHANGED <<ast, pos, diag, gen, status, source, files, child>>

NextCompile == ReadFile \/ LexerTokenize \/ ParserParse \/ CodegenLlvm \/ CmdCompileReturn

SpecCompile == InitCompile /\ [][NextCompile]_vars

-----------------------------------------------------------------------------
(* The lexer alone, one iteration of its loop at a time                     *)

MaxPieces == 4

\* What an input text is put together from: a keyword, a name, a digit, the
\* point, the quote, the backslash, the newline, the space, the minus and the
\* hash.
Pieces ==
    { <<"i", "f">>, <<"a">>, <<"1">>, <<".">>, <<"\"">>, <<"\\">>, <<"\n">>, <<" ">>,
      <<"-">>, <<"#">> }

LexSources(pieces) ==
    { [readable |-> TRUE, text |-> Flatten(ps)] : ps \in {<<>>} \cup SeqsUpTo(Pieces, pieces) }

\* The lexer structure of the run: lexer->source, lexer->pos, lexer->tokens.
TheLexer == [source |-> source.text, pos |-> pos, tokens |-> tokens, ok |-> TRUE]

InitLex ==
    /\ source \in LexSources(MaxPieces)
    /\ tokens = <<>>
    /\ pc = "lexing"
    /\ ast = NULL
    /\ pos = 0
    /\ diag = <<>>
    /\ gen = codegen_create(NoUB)
    /\ status = -1
    /\ files = {}
    /\ child = NoChild

\* while (lexer->pos < lexer->source_len) { ... }: one iteration.
LexerStep ==
    /\ pc = "lexing"
    /\ pos < Len(source.text)
    /\ LET lexer == lexer_step(TheLexer)
       IN /\ tokens' = lexer.tokens
          /\ pos' = lexer.pos
          /\ pc' = IF lexer.ok THEN "lexing" ELSE "lex_failed"
    /\ UNCHANGED <<ast, diag, gen, status, source, files, child>>

\* The loop has ended: the TOK_EOF token and "return true".
LexerEnd ==
    /\ pc = "lexing"
    /\ pos >= Len(source.text)
    /\ tokens' = lexer_add_eof(TheLexer).tokens
    /\ pc' = "lexed"
    /\ UNCHANGED <<ast, pos, diag, gen, status, source, files, child>>

NextLex == LexerStep \/ LexerEnd

SpecLex == InitLex /\ [][NextLex]_vars

-----------------------------------------------------------------------------
(* The run command (main.c cmd_run): the four temporary files, the entry   *)
(* routine it writes, and the process that executes the emitted text.      *)

tmp_ll == "/tmp/nerd_out.ll"
tmp_main == "/tmp/nerd_main.ll"
tmp_combined == "/tmp/nerd_combined.ll"
tmp_bin == "/tmp/nerd_run"
TempFiles == {tmp_ll, tmp_main, tmp_combined, tmp_bin}

\* The test argument the entry routine passes for parameter j (from 0).
TestArg(j) == IF j = 0 THEN 5 ELSE IF j = 1 THEN 3 ELSE 1

\* The lines of the text that are instructions, labels and braces: a comment
\* is nothing to the toolchain.
IsCode(ins) == ins.op # "comment"

\* The position of the k-th "define" line of the text.
RECURSIVE DefineAt(_, _, _)
DefineAt(out, k, from) ==
    IF out[from].op = "define"
    THEN IF k = 1 THEN from ELSE DefineAt(out, k - 1, from + 1)
    ELSE DefineAt(out, k, from + 1)

\* The closing brace of the function whose text holds line i.
RECURSIVE BraceAfter(_, _)
BraceAfter(out, i) == IF out[i].op = "}" THEN i ELSE BraceAfter(out, i + 1)

\* The line of a label in the function whose define line is d.
LabelAt(out, d, lab) ==
    CHOOSE i \in d..BraceAfter(out, d) : out[i].op = "label" /\ out[i].args[1] = lab

\* What the native toolchain requires of the text of one function from its
\* define line d to its brace e: every block is closed by one terminator, its
\* last line; every %arg is a parameter; every register and slot read is
\* written by a line of the function; a string is addressed with the type of
\* its constant.
FunctionIsValid(out, d, e) ==
    LET code == SelectSeq(SubSeq(out, d, e), IsCode)
        terminator(ins) == ins.op \in {"ret", "br", "br i1"}
        written == { code[i].dst : i \in 1..Len(code) }
    IN /\ \A i \in 2..Len(code) :
             /\ terminator(code[i - 1]) <=> code[i].op \in {"label", "}"}
                                            /\ code[i - 1].op \notin {"define", "label"}
             /\ code[i].op \in {"label", "}"} => code[i - 1].op # "label"
       /\ \A i \in 1..Len(code) : \A a \in 1..Len(code[i].args) :
             /\ code[i].args[a].r = "arg" /\ i > 1 => code[i].args[a].n < Len(code[1].args)
             /\ code[i].args[a].r \in {"t", "local"} => code[i].args[a] \in written
             /\ code[i].args[a].r = "str" =>
                    \E c \in 1..Len(out) : /\ out[c].op = "constant"
                                           /\ out[c].dst = code[i].args[a]
                                           /\ out[c].len = code[i].len

\* clang accepts the combined text only when every function of it is valid.
TextIsValid(out) ==
    \A d \in 1..Len(out) : out[d].op = "define" => FunctionIsValid(out, d, BraceAfter(out, d))

\* The process at the call of the k-th function by the entry routine: no
\* register or slot is written yet, stdout and the history are kept.
CallFunction(c, out, k) ==
    [c EXCEPT !.fn = k, !.ip = DefineAt(out, k, 1) + 1, !.t = <<>>, !.mem = <<>>]

\* system(tmp_bin) starts the process in main, at the call of the first
\* function; a program without functions returns at once.
StartChild(out, program) ==
    IF Len(program.functions) = 0
    THEN [state |-> "exited", status |-> 0, fn |-> 0, ip |-> 0, t |-> <<>>, mem |-> <<>>,
          stdout |-> <<>>, steps |-> 0, hist |-> <<>>]
    ELSE CallFunction([state |-> "running", status |-> 0, fn |-> 0, ip |-> 0, t |-> <<>>,
                       mem |-> <<>>, stdout |-> <<>>, steps |-> 0, hist |-> <<>>], out, 1)

\* The value of an operand: a constant, a register, a parameter of the call.
Val(c, x) ==
    CASE x.r = "imm" -> x.n
      [] x.r = "t" -> c.t[x.n]
      [] x.r = "arg" -> TestArg(x.n)

\* f with the value v at n.
Put(f, n, v) == (n :> v) @@ f

\* The result of a two-operand instruction on doubles: a double, or the i1 of an
\* ordered comparison.
Compute(op, a, b) ==
    CASE op = "fadd" -> a + b
      [] op = "fsub" -> a - b
      [] op = "fmul" -> a * b
      [] op = "fcmp oeq" -> a = b
      [] op = "fcmp one" -> a # b
      [] op = "fcmp olt" -> a < b
      [] op = "fcmp ogt" -> a > b
      [] op = "fcmp ole" -> a <= b
      [] op = "fcmp oge" -> a >= b

\* "ret double X" in the k-th function: main prints "name = value" and calls
\* the next function, or returns 0 after the last.
Return(c, out, program, v) ==
    Bind([c EXCEPT !.stdout = Append(@, [text |-> program.functions[c.fn].name, value |-> v])],
         LAMBDA printed :
        IF c.fn < Len(program.functions) THEN CallFunction(printed, out, c.fn + 1)
        ELSE [printed EXCEPT !.state = "exited", !.status = 0])

\* One instruction of the process: the line at ip of the text.
Execute(c, out, program, ins) ==
    CASE ins.op = "label" ->
           [c EXCEPT !.ip = @ + 1,
                     !.hist = Append(@, [label |-> ins.args[1], mem |-> c.mem, t |-> c.t])]
      [] ins.op = "comment" -> [c EXCEPT !.ip = @ + 1]
      [] ins.op \in {"fadd", "fsub", "fmul", "fcmp oeq", "fcmp one", "fcmp olt",
                     "fcmp ogt", "fcmp ole", "fcmp oge"} ->
           [c EXCEPT !.ip = @ + 1,
                     !.t = Put(@, ins.dst.n, Compute(ins.op, Val(c, ins.args[1]),
                                                     Val(c, ins.args[2])))]
      [] ins.op = "and" ->
           [c EXCEPT !.ip = @ + 1,
                     !.t = Put(@, ins.dst.n, Val(c, ins.args[1]) /\ Val(c, ins.args[2]))]
      [] ins.op = "or" ->
           [c EXCEPT !.ip = @ + 1,
                     !.t = Put(@, ins.dst.n, Val(c, ins.args[1]) \/ Val(c, ins.args[2]))]
      [] ins.op = "uitofp" ->
           [c EXCEPT !.ip = @ + 1,
                     !.t = Put(@, ins.dst.n, IF Val(c, ins.args[1]) THEN 1 ELSE 0)]
      [] ins.op = "alloca" -> [c EXCEPT !.ip = @ + 1, !.mem = Put(@, ins.dst.n, "undef")]
      [] ins.op = "store" ->
           [c EXCEPT !.ip = @ + 1, !.mem = Put(@, ins.args[2].n, Val(c, ins.args[1]))]
      [] ins.op = "load" ->
           [c EXCEPT !.ip = @ + 1, !.t = Put(@, ins.dst.n, c.mem[ins.args[1].n])]
      [] ins.op = "getelementptr" ->
           [c EXCEPT !.ip = @ + 1, !.t = Put(@, ins.dst.n, ins.args[1])]
      [] ins.op = "printf" ->
           [c EXCEPT !.ip = @ + 1,
                     !.stdout = Append(@, [text |-> ins.name, value |-> Val(c, ins.args[1])])]
      [] ins.op = "br" ->
           [c EXCEPT !.ip = LabelAt(out, DefineAt(out, c.fn, 1), ins.args[1])]
      [] ins.op = "br i1" ->
           [c EXCEPT !.ip = LabelAt(out, DefineAt(out, c.fn, 1),
                                    IF Val(c, ins.args[1]) THEN ins.args[2] ELSE ins.args[3])]
      [] ins.op = "ret" -> Return(c, out, program, Val(c, ins.args[1]))
      [] OTHER -> [c EXCEPT !.state = "killed", !.status = 1]

\* The programs of the run command.  f has the parameter n (called with 5.0).
MaxSteps == 200

NameN == <<"n">>
NameS == <<"s">>
NameI == <<"i">>
NameH == <<"h">>
NameG == <<"g">>

\* fn f n / let s zero / repeat C times [as i] / B / done / ret s
RepeatCounts == { <<Id(NameN)>>, <<Kw("TOK_ZERO")>>, <<Kw("TOK_ONE")>>, <<Kw("TOK_TWO")>> }
RepeatNames == { <<>>, <<Kw("TOK_AS"), Id(NameI)>> }
RepeatBodies ==
    { <<Kw("TOK_INC"), Id(NameS), Id(NameI), NL>>,
      <<Kw("TOK_INC"), Id(NameS), NL>>,
      <<Kw("TOK_INC"), Id(NameS), Id(NameN), NL>>,
      <<Kw("TOK_OUT"), Id(NameI), NL>>,
      <<Kw("TOK_OUT"), StrTok(<<"h", "i">>), NL>>,
      <<Kw("TOK_INC"), Id(NameI), NL>>,
      <<Kw("TOK_DEC"), Id(NameI), NL>>,
      <<Kw("TOK_LET"), Id(NameI), Kw("TOK_ONE"), NL>>,
      <<Kw("TOK_RET"), Id(NameS), NL>>,
      <<Kw("TOK_RET"), Id(NameX), NL>>,
      <<>> }

RepeatPrograms ==
    { <<Kw("TOK_FN"), Id(NameF), Id(NameN), NL,
        Kw("TOK_LET"), Id(NameS), Kw("TOK_ZERO"), NL, Kw("TOK_REPEAT")>>
      \o count \o <<Kw("TOK_TIMES")>> \o name \o <<NL>> \o body
      \o <<Kw("TOK_DONE"), NL, Kw("TOK_RET"), Id(NameS), NL, EOF>> :
        count \in RepeatCounts, name \in RepeatNames, body \in RepeatBodies }

\* fn h / let i V / while COND / B / done / ret i
WhileStarts == { Kw("TOK_TEN"), Kw("TOK_TWO"), Kw("TOK_ZERO") }
WhileConds ==
    { <<Id(NameI), Kw("TOK_GT"), Kw("TOK_ZERO")>>,
      <<Id(NameI), Kw("TOK_NEQ"), Kw("TOK_ONE")>>,
      <<Id(NameI)>> }
WhileBodies ==
    { <<Kw("TOK_DEC"), Id(NameI), NL>>,
      <<Kw("TOK_DEC"), Id(NameI), Kw("TOK_TWO"), NL>>,
      <<Kw("TOK_OUT"), Id(NameI), NL, Kw("TOK_DEC"), Id(NameI), NL>>,
      <<Kw("TOK_RET"), Id(NameI), NL>> }

WhilePrograms ==
    { <<Kw("TOK_FN"), Id(NameH), NL, Kw("TOK_LET"), Id(NameI), start, NL, Kw("TOK_WHILE")>>
      \o cond \o <<NL>> \o body
      \o <<Kw("TOK_DONE"), NL, Kw("TOK_RET"), Id(NameI), NL, EOF>> :
        start \in WhileStarts, cond \in WhileConds, body \in WhileBodies }

\* fn g x / if x gt zero ret ok x else ret err zero;  a counter that an earlier
\* let has named;  two functions, the second of two parameters;  no function.
OtherPrograms ==
    { <<Kw("TOK_FN"), Id(NameG), Id(NameX), NL,
        Kw("TOK_IF"), Id(NameX), Kw("TOK_GT"), Kw("TOK_ZERO"), Kw("TOK_RET"), Kw("TOK_OK"),
        Id(NameX), Kw("TOK_ELSE"), Kw("TOK_RET"), Kw("TOK_ERR"), Kw("TOK_ZERO"), NL, EOF>>,
      <<Kw("TOK_FN"), Id(NameF), Id(NameN), NL,
        Kw("TOK_LET"), Id(NameI), Kw("TOK_ZERO"), NL,
        Kw("TOK_REPEAT"), Kw("TOK_TWO"), Kw("TOK_TIMES"), Kw("TOK_AS"), Id(NameI), NL,
        Kw("TOK_OUT"), Id(NameI), NL, Kw("TOK_DONE"), NL, EOF>>,
      <<Kw("TOK_FN"), Id(NameF), Id(NameA), NL, Kw("TOK_RET"), Id(NameA), NL,
        Kw("TOK_FN"), Id(NameG), Id(NameA), Id(NameB), NL,
        Kw("TOK_RET"), Kw("TOK_SECOND"), Kw("TOK_MINUS"), Kw("TOK_FIRST"), NL, EOF>>,
      <<Kw("TOK_FN"), Id(NameF), Id(NameA), NL, Kw("TOK_RET"), Kw("TOK_FOURTH"), NL, EOF>>,
      <<Kw("TOK_FN"), NL, EOF>>,
      <<EOF>> }

RunInputs == RepeatPrograms \cup WhilePrograms \cup OtherPrograms

InitRun ==
    /\ tokens \in RunInputs
    /\ pc = "run_start"
    /\ ast = NULL
    /\ pos = 0
    /\ diag = <<>>
    /\ gen = codegen_create(NoUB)
    /\ status = -1
    /\ source = NoSource
    /\ files = {}
    /\ child = NoChild

\* ASTNode *ast = parser_parse(parser)
RunParse ==
    /\ pc = "run_start"
    /\ LET r == parser_parse(tokens)
       IN /\ ast' = r.node
          /\ pos' = r.pos
          /\ diag' = r.diag
          /\ pc' = IF r.node = NULL THEN "run_parse_failed" ELSE "run_parsed"
    /\ UNCHANGED <<tokens, gen, status, source, files, child>>

\* codegen_llvm(&ctx, tmp_ll)
RunCodegen ==
    /\ pc = "run_parsed"
    /\ Codegen(tmp_ll, "run_generated", "run_failed")
    /\ UNCHANGED <<tokens, ast, pos, diag, status, source, child>>

\* fopen(tmp_main, "w") and the entry routine written to it: "Cannot create
\* temp file" when it fails.
RunWriteMain ==
    /\ pc = "run_generated"
    /\ \/ pc' = "run_failed" /\ UNCHANGED files
       \/ pc' = "run_main_written" /\ files' = files \cup {tmp_main}
    /\ UNCHANGED <<tokens, ast, pos, diag, gen, status, source, child>>

\* system("cat tmp_ll tmp_main > tmp_combined"): the shell creates the file,
\* or cannot; a status other than 0 is "Failed to combine files".
RunCombine ==
    /\ pc = "run_main_written"
    /\ \/ pc' = "run_failed" /\ UNCHANGED files
       \/ pc' = "run_failed" /\ files' = files \cup {tmp_combined}
       \/ pc' = "run_combined" /\ files' = files \cup {tmp_combined}
    /\ UNCHANGED <<tokens, ast, pos, diag, gen, status, source, child>>

\* system("clang -w tmp_combined -o tmp_bin"): it can fail whatever the text
\* is, and it writes the executable only for a valid text; then
\* system(tmp_bin) starts the process.
RunClang ==
    /\ pc = "run_combined"
    /\ \/ pc' = "run_failed" /\ UNCHANGED <<files, child>>
       \/ /\ TextIsValid(gen.out)
          /\ pc' = "run_compiled"
          /\ files' = files \cup {tmp_bin}
          /\ child' = StartChild(gen.out, ast)
    /\ UNCHANGED <<tokens, ast, pos, diag, gen, status, source>>

\* The process executes one instruction.
ChildStep ==
    /\ pc = "run_compiled"
    /\ child.state = "running"
    /\ child.steps < MaxSteps
    /\ child' = [Execute(child, gen.out, ast, gen.out[child.ip]) EXCEPT !.steps = @ + 1]
    /\ UNCHANGED <<tokens, pc, ast, pos, diag, gen, status, source, files>>

\* system(tmp_bin) has returned: the four remove() calls and "return result".
RunCleanup ==
    /\ pc = "run_compiled"
    /\ child.state # "running"
    /\ files' = files \ TempFiles
    /\ \E survives \in IF HasFreed(ast) THEN BOOLEAN ELSE {TRUE} :
          /\ pc' = IF survives THEN "run_exit" ELSE "killed"
          /\ status' = IF survives THEN child.status ELSE status
    /\ UNCHANGED <<tokens, ast, pos, diag, gen, source, child>>

\* The "return 1" of cmd_run after a failure: the one after parser_parse, and
\* those after codegen_llvm, fopen and the two system() calls, which release
\* the tree.
RunReturn ==
    /\ pc \in {"run_parse_failed", "run_failed"}
    /\ \E survives \in IF pc = "run_failed" /\ HasFreed(ast) THEN BOOLEAN ELSE {TRUE} :
          /\ pc' = IF survives THEN "run_exit" ELSE "killed"
          /\ status' = IF survives THEN 1 ELSE status
    /\ UNCHANGED <<tokens, ast, pos, diag, gen, source, files, child>>

NextRun ==
    \/ RunParse \/ RunCodegen \/ RunWriteMain \/ RunCombine \/ RunClang
    \/ ChildStep \/ RunCleanup \/ RunReturn

SpecRun == InitRun /\ [][NextRun]_vars

\* The process that system(tmp_bin) has started is scheduled until it ends.
FairSpecRun == SpecRun /\ WF_vars(ChildStep)


-----------------------------------------------------------------------------
(* Properties of expression trees                                          *)

\* The precedence level of an operator token: or < and < comparison < additive
\* < multiplicative.
OpLevel(t) ==
    CASE t = "TOK_OR" -> 1
      [] t = "TOK_AND" -> 2
      [] t \in {"TOK_EQ", "TOK_NEQ", "TOK_LT", "TOK_GT", "TOK_LTE", "TOK_GTE"} -> 3
      [] t \in {"TOK_PLUS", "TOK_MINUS"} -> 4
      [] t \in {"TOK_TIMES", "TOK_OVER", "TOK_MOD"} -> 5
      [] OTHER -> 0

\* The level of the operator at the root of a tree: a binary operator's level by
\* its lexeme, 6 for a unary operator, 7 for a call or a primary.
Level(node) ==
    IF node.type = "NODE_BINOP"
    THEN OpLevel((CHOOSE k \in BinaryOpTypes : KwWord(k) = node.op))
    ELSE IF node.type = "NODE_UNARYOP" THEN 6 ELSE 7

RECURSIVE NoLooserBelow(_)
\* No operator is the parent of a looser one, except through a call's arguments.
NoLooserBelow(node) ==
    CASE node.type = "NODE_BINOP" ->
            /\ Level(node.left) >= Level(node)
            /\ Level(node.right) >= Level(node)
            /\ NoLooserBelow(node.left)
            /\ NoLooserBelow(node.right)
      [] node.type = "NODE_UNARYOP" ->
            Level(node.operand) >= 6 /\ NoLooserBelow(node.operand)
      [] node.type = "NODE_CALL" ->
            \A i \in 1..Len(node.args) : NoLooserBelow(node.args[i])
      [] OTHER -> TRUE

RECURSIVE RightTighter(_)
\* The right operand of every binary operator is of a strictly tighter level.
RightTighter(node) ==
    CASE node.type = "NODE_BINOP" ->
            /\ Level(node.right) > Level(node)
            /\ RightTighter(node.left)
            /\ RightTighter(node.right)
      [] node.type = "NODE_UNARYOP" -> RightTighter(node.operand)
      [] node.type = "NODE_CALL" ->
            \A i \in 1..Len(node.args) : RightTighter(node.args[i])
      [] OTHER -> TRUE

\* The node parse_primary builds for a single token.
Leaf(tok) == parse_primary(<<tok, EOF>>, R(NULL, 0, <<>>)).node

IsTriple == tokens \in TripleInputs
LeftNested == BinOp(tokens[4].value, BinOp(tokens[2].value, Leaf(tokens[1]), Leaf(tokens[3])),
                    Leaf(tokens[5]))
RightNested == BinOp(tokens[2].value, Leaf(tokens[1]),
                     BinOp(tokens[4].value, Leaf(tokens[3]), Leaf(tokens[5])))

\* C6: 'A plus B times C' parses to plus(A, times(B, C)) and 'A times B plus C' to
\* plus(times(A, B), C); for any two operators of different levels the tighter one
\* is nested below the looser one; and in every tree parse_expr or parse_call
\* returns, no operator is the parent of an operator of a looser level.
C6_Precedence ==
    /\ (pc = "expr_done" /\ IsTriple /\ OpLevel(tokens[2].type) < OpLevel(tokens[4].type))
          => (ast = RightNested /\ pos = 5 /\ diag = <<>>)
    /\ (pc = "expr_done" /\ IsTriple /\ OpLevel(tokens[2].type) > OpLevel(tokens[4].type))
          => (ast = LeftNested /\ pos = 5 /\ diag = <<>>)
    /\ (pc \in {"expr_done", "call_done"}) => NoLooserBelow(ast)

C6_Witness ==
    /\ pc = "expr_done"
    /\ tokens = <<Id(NameA), Kw("TOK_PLUS"), Id(NameB), Kw("TOK_TIMES"), StrTok(<<"s">>), EOF>>
    /\ ast = BinOp(<<"p","l","u","s">>, Leaf(Id(NameA)),
                   BinOp(<<"t","i","m","e","s">>, Leaf(Id(NameB)), Leaf(StrTok(<<"s">>))))

\* C7: for two operators of the same level, 'A op1 B op2 C' parses to
\* op2(op1(A, B), C); and in every tree the right operand of a binary operator is
\* of a strictly tighter level than the operator (a chain nests to the left).
C7_LeftAssoc ==
    /\ (pc = "expr_done" /\ IsTriple /\ OpLevel(tokens[2].type) = OpLevel(tokens[4].type))
          => (ast = LeftNested /\ pos = 5 /\ diag = <<>>)
    /\ (pc \in {"expr_done", "call_done"}) => RightTighter(ast)

C7_Witness ==
    /\ pc = "expr_done"
    /\ tokens = <<Id(NameA), Kw("TOK_MINUS"), Id(NameB), Kw("TOK_PLUS"), Kw("TOK_ONE"), EOF>>
    /\ ast = BinOp(<<"p","l","u","s">>,
                   BinOp(<<"m","i","n","u","s">>, Leaf(Id(NameA)), Leaf(Id(NameB))),
                   Leaf(Kw("TOK_ONE")))

RECURSIVE ArgsUnaryLevel(_)
\* Every argument of every call in the tree is a unary-level expression.
ArgsUnaryLevel(node) ==
    CASE node.type = "NODE_BINOP" -> ArgsUnaryLevel(node.left) /\ ArgsUnaryLevel(node.right)
      [] node.type = "NODE_UNARYOP" -> ArgsUnaryLevel(node.operand)
      [] node.type = "NODE_CALL" ->
            \A i \in 1..Len(node.args) :
                Level(node.args[i]) >= 6 /\ ArgsUnaryLevel(node.args[i])
      [] OTHER -> TRUE

\* The boundary tokens of an argument list: newline, end of input, the binary
\* operator words and the keywords ret let if else call out done repeat as while.
BoundaryTypes ==
    {"TOK_NEWLINE", "TOK_EOF"} \cup BinaryOpTypes \cup
    {"TOK_RET", "TOK_LET", "TOK_IF", "TOK_ELSE", "TOK_CALL", "TOK_OUT", "TOK_DONE",
     "TOK_REPEAT", "TOK_AS", "TOK_WHILE"}

RECURSIVE ModulesOf(_)
\* The module names of the module-qualified calls in a tree.
ModulesOf(node) ==
    CASE node.type = "NODE_BINOP" -> ModulesOf(node.left) \cup ModulesOf(node.right)
      [] node.type = "NODE_UNARYOP" -> ModulesOf(node.operand)
      [] node.type = "NODE_CALL" ->
            (IF node.module = NoName THEN {} ELSE {node.module})
            \cup UNION { ModulesOf(node.args[i]) : i \in 1..Len(node.args) }
      [] OTHER -> {}

FiveModules == { KwWord(k) : k \in {"TOK_MATH", "TOK_LIST", "TOK_TIME", "TOK_HTTP", "TOK_JSON"} }
SevenModules == FiveModules \cup { KwWord("TOK_STR"), KwWord("TOK_ERR") }

-----------------------------------------------------------------------------
(* Properties of the compile command                                       *)

\* No read of the program is undefined: the emitter's text is determined.
NoUndefinedRead(program) ==
    ~HasFreed(program) /\ ~HasNameless(program) /\ ~HasNullArm(program)

\* codegen_expr has met a name that is no local and no parameter.
UnknownVariableReported ==
    \E i \in 1..Len(gen.err) : gen.err[i] = "Error: Unknown variable"

\* C1: when a function body reads a name that is neither a parameter nor a
\* local, codegen_llvm reports failure and the command exits with status 1; it
\* does not report success.
C1_UnknownVariableFails ==
    (pc \in {"generated", "codegen_failed", "exit"} /\ UnknownVariableReported)
        => (pc # "generated" /\ (pc = "exit" => status = 1))

IsTerminator(ins) == ins.op \in {"ret", "br", "br i1"}
EndsBlock(ins) == ins.op \in {"label", "}"}

\* The line that ends the basic block opened by the label at p.
BlockEnd(out, p) ==
    CHOOSE q \in (p + 1)..Len(out) :
        EndsBlock(out[q]) /\ \A r \in (p + 1)..(q - 1) : ~EndsBlock(out[r])

\* C2: in the text emitted for an accepted program, every basic block (from a
\* label to the next label or the closing brace) holds exactly one terminator,
\* and it is the last instruction of the block.
C2_OneTerminatorPerBlock ==
    (pc = "generated" /\ gen.err = <<>> /\ NoUndefinedRead(ast))
        => \A p \in 1..Len(gen.out) :
               gen.out[p].op = "label" =>
                   LET q == BlockEnd(gen.out, p)
                   IN /\ Cardinality({r \in (p + 1)..(q - 1) : IsTerminator(gen.out[r])}) = 1
                      /\ IsTerminator(gen.out[q - 1])

\* The string literals in the order the collection pass visits them, each with
\* whether it is the value of an Out statement.
RECURSIVE OccExpr(_)
RECURSIVE OccExprs(_, _)
OccExprs(list, i) ==
    IF i > Len(list) THEN <<>> ELSE OccExpr(list[i]) \o OccExprs(list, i + 1)
OccExpr(n) ==
    CASE n.type = "NODE_STR" -> <<[value |-> n.value, out |-> FALSE]>>
      [] n.type = "NODE_BINOP" -> OccExpr(n.left) \o OccExpr(n.right)
      [] n.type = "NODE_UNARYOP" -> OccExpr(n.operand)
      [] n.type = "NODE_CALL" -> OccExprs(n.args, 1)
      [] OTHER -> <<>>

RECURSIVE OccStmt(_, _)
RECURSIVE OccStmts(_, _, _)
OccStmts(list, i, amounts) ==
    IF i > Len(list) THEN <<>>
    ELSE OccStmt(list[i], amounts) \o OccStmts(list, i + 1, amounts)
OccStmt(n, amounts) ==
    CASE n.type = "FREED" -> OccStmt(n.was, amounts)
      [] n.type = "NODE_OUT" ->
            IF n.value.type = "NODE_STR" THEN <<[value |-> n.value.value, out |-> TRUE]>>
            ELSE OccExpr(n.value)
      [] n.type = "NODE_RETURN" -> OccExpr(n.value)
      [] n.type = "NODE_IF" ->
            OccExpr(n.condition) \o OccStmt(n.then_stmt, amounts)
                \o OccStmt(n.else_stmt, amounts)
      [] n.type = "NODE_LET" -> OccExpr(n.value)
      [] n.type = "NODE_EXPR_STMT" -> OccExpr(n.expr)
      [] n.type = "NODE_REPEAT" -> OccExpr(n.count) \o OccStmts(n.body, 1, amounts)
      [] n.type = "NODE_WHILE" -> OccExpr(n.condition) \o OccStmts(n.body, 1, amounts)
      [] n.type \in {"NODE_INC", "NODE_DEC"} ->
            IF amounts THEN OccExpr(n.amount) ELSE <<>>
      [] OTHER -> <<>>

RECURSIVE OccFuncs(_, _, _)
OccFuncs(funcs, i, amounts) ==
    IF i > Len(funcs) THEN <<>>
    ELSE OccStmts(funcs[i].body, 1, amounts) \o OccFuncs(funcs, i + 1, amounts)

\* Every string literal of the program in document order.
DocStrings(program) ==
    [i \in 1..Len(OccFuncs(program.functions, 1, TRUE)) |->
        OccFuncs(program.functions, 1, TRUE)[i].value]

\* The literals of the statement forms collect_strings_stmt looks into.
Collected(program) == OccFuncs(program.functions, 1, FALSE)

\* The constant and array length an Out of the i-th collected literal is to name.
RECURSIVE OutRefs(_, _)
OutRefs(occ, i) ==
    IF i > Len(occ) THEN <<>>
    ELSE (IF occ[i].out THEN <<[str |-> i - 1, len |-> Len(occ[i].value) + 1]>> ELSE <<>>)
         \o OutRefs(occ, i + 1)

\* The constant and array length of every getelementptr of the text.
RECURSIVE EmittedRefs(_, _)
EmittedRefs(out, i) ==
    IF i > Len(out) THEN <<>>
    ELSE (IF out[i].op = "getelementptr"
          THEN <<[str |-> out[i].args[1].n, len |-> out[i].len]>> ELSE <<>>)
         \o EmittedRefs(out, i + 1)

\* C3: every Out of a string literal names the constant @.strI, I the index the
\* collection pass gave that literal, with the array length of the literal plus
\* one, also when literals occur outside Out statements.
C3_OutNamesCollectedIndex ==
    (/\ pc = "generated" /\ gen.err = <<>> /\ NoUndefinedRead(ast)
     /\ gen.string_literals = [i \in 1..Len(Collected(ast)) |-> Collected(ast)[i].value])
        => EmittedRefs(gen.out, 1) = OutRefs(Collected(ast), 1)

\* C4: the string table holds every string literal of the program, once per
\* occurrence, in document order, the amounts of inc and dec included.
C4_TableInDocumentOrder ==
    (pc = "generated" /\ NoUndefinedRead(ast)) => gen.string_literals = DocStrings(ast)

\* C5: when the parser has reported a missing or unexpected token, parser_parse
\* returns no Program.
C5_DiagnosticMeansNoTree ==
    (pc # "start" /\ diag # <<>>) => ast = NULL

\* The text that the k-th statement of the first function's body adds.
FirstFunc == ast.functions[1]
Prologue ==
    codegen_func_entry(
        emit_string_table(
            collect_strings([codegen_create(gen.ub) EXCEPT !.out = Header], ast), 1),
        FirstFunc)
Before(k) == codegen_body(Prologue, SubSeq(FirstFunc.body, 1, k - 1), 1, FALSE).cg
EmittedBy(k) ==
    SubSeq(codegen_stmt(Before(k), FirstFunc.body[k]).out,
           Len(Before(k).out) + 1,
           Len(codegen_stmt(Before(k), FirstFunc.body[k]).out))
OpsOf(seq, op) == SelectSeq(seq, LAMBDA ins : ins.op = op)

\* Statement n contains a let of x.
RECURSIVE LetsIn(_, _)
LetsIn(n, x) ==
    CASE n.type = "FREED" -> LetsIn(n.was, x)
      [] n.type = "NODE_LET" -> n.name = x
      [] n.type = "NODE_IF" -> LetsIn(n.then_stmt, x) \/ LetsIn(n.else_stmt, x)
      [] n.type \in {"NODE_REPEAT", "NODE_WHILE"} ->
            \E i \in 1..Len(n.body) : LetsIn(n.body[i], x)
      [] OTHER -> FALSE

\* The slot that the let at statement k stores to.
SlotOfLet(k) == OpsOf(EmittedBy(k), "store")[1].args[2]

\* The k-th statement is the first let of its name in the function: one alloca,
\* and the value is stored to it.
FirstLetAllocates(k) ==
    /\ Len(OpsOf(EmittedBy(k), "alloca")) = 1
    /\ Len(OpsOf(EmittedBy(k), "store")) = 1
    /\ SlotOfLet(k) = OpsOf(EmittedBy(k), "alloca")[1].dst

\* The k-th statement is a later let of the name first let at statement j: no
\* alloca, and the value is stored to the slot of j.
LaterLetStores(k, j) ==
    /\ Len(OpsOf(EmittedBy(k), "alloca")) = 0
    /\ Len(OpsOf(EmittedBy(k), "store")) = 1
    /\ SlotOfLet(k) = SlotOfLet(j)

\* The k-th statement returns or prints x, last let at statement j: it loads
\* from the slot of j.
ReadLoads(k, j) ==
    \E i \in 1..Len(EmittedBy(k)) :
        EmittedBy(k)[i].op = "load" /\ EmittedBy(k)[i].args[1] = SlotOfLet(j)

\* C10: among the statements of a function body, the first let of a name emits
\* exactly one alloca, every later let of it only a store to that slot, and a
\* read of the name after them loads from that slot.
C10_LetReusesSlot ==
    (pc = "generated" /\ gen.err = <<>>)
        => \A k \in 1..Len(FirstFunc.body) :
              LET body == FirstFunc.body
                  LetsOf(x) == {j \in 1..(k - 1) : body[j].type = "NODE_LET" /\ body[j].name = x}
                  Nested(x) == \E j \in 1..(k - 1) :
                                  body[j].type # "NODE_LET" /\ LetsIn(body[j], x)
                  Min(S) == CHOOSE j \in S : \A i \in S : j <= i
                  Max(S) == CHOOSE j \in S : \A i \in S : j >= i
              IN /\ body[k].type = "NODE_LET" =>
                        IF LetsOf(body[k].name) # {}
                        THEN LaterLetStores(k, Min(LetsOf(body[k].name)))
                        ELSE Nested(body[k].name) \/ FirstLetAllocates(k)
                 /\ (/\ body[k].type \in {"NODE_RETURN", "NODE_OUT"}
                     /\ body[k].value.type = "NODE_VAR"
                     /\ LetsOf(body[k].value.name) # {})
                        => ReadLoads(k, Max(LetsOf(body[k].value.name)))

-----------------------------------------------------------------------------
(* Properties of parameters                                                *)

\* The names of the parameters of a function definition, in order.
ParamNamesOf(func) == [i \in 1..Len(func.params) |-> func.params[i].name]

Distinct(names) ==
    \A i, j \in 1..Len(names) : i # j => names[i] # names[j]

\* The instructions of the first function, between its entry label and its
\* closing brace.
EntryAt(out) == CHOOSE p \in 1..Len(out) : out[p].op = "label" /\ \A q \in 1..(p - 1) : out[q].op # "label"
CloseAt(out) == CHOOSE p \in 1..Len(out) : out[p].op = "}" /\ \A q \in 1..(p - 1) : out[q].op # "}"
BodyText(out) == SubSeq(out, EntryAt(out) + 1, CloseAt(out) - 1)

\* The word of the positional reference to parameter k (k from 0).
PositionalWords == <<"TOK_FIRST", "TOK_SECOND", "TOK_THIRD", "TOK_FOURTH">>

\* The program ends in "ret W" where W is the positional word of index k or the
\* name of parameter k of func.
ReturnsParam(func, k) ==
    /\ Len(func.body) = 1 /\ func.body[1].type = "NODE_RETURN"
    /\ tokens[Len(tokens) - 3].type = "TOK_RET"
    /\ \/ /\ k < Len(PositionalWords)
          /\ tokens[Len(tokens) - 2].type = PositionalWords[k + 1]
       \/ tokens[Len(tokens) - 2] = Id(func.params[k + 1].name)

\* C11: in a function whose parameter names are distinct, the positional word of
\* index k and the name of the k-th parameter are both emitted as a read of
\* %argk: "ret third" and "ret c" give the same text, a read of %arg2.
C11_PositionalIsParameter ==
    (pc = "generated" /\ Len(ast.functions) = 1 /\ Distinct(ParamNamesOf(ast.functions[1])))
        => \A k \in 0..(Len(ast.functions[1].params) - 1) :
              ReturnsParam(ast.functions[1], k)
                  => BodyText(gen.out) = << I("fadd", T(0), <<Imm(0), Arg(k)>>),
                                            I("ret", NoDst, <<T(0)>>) >>

C11_Witness ==
    /\ pc = "generated"
    /\ tokens = <<Kw("TOK_FN"), Id(NameF), Id(NameA), Id(NameB), Id(NameC), Id(NameD), NL,
                  Kw("TOK_RET"), Kw("TOK_THIRD"), NL, EOF>>
    /\ BodyText(gen.out) = << I("fadd", T(0), <<Imm(0), Arg(2)>>), I("ret", NoDst, <<T(0)>>) >>

\* The define line of the function that line i of the text belongs to.
DefineOf(out, i) ==
    CHOOSE d \in 1..i : out[d].op = "define" /\ \A e \in (d + 1)..i : out[e].op # "define"

\* C12: every %argK read in a function of N parameters has K < N.
C12_ArgsAreOwnParameters ==
    (pc = "generated")
        => \A i \in 1..Len(gen.out) :
              gen.out[i].op \notin {"declare", "format", "constant", "define"} =>
                  \A a \in 1..Len(gen.out[i].args) :
                      gen.out[i].args[a].r = "arg"
                          => gen.out[i].args[a].n < Len(gen.out[DefineOf(gen.out, i)].args)

\* C20: the parameter names of every function of a parsed program are pairwise
\* distinct.
C20_DistinctParams ==
    (pc # "start" /\ ast # NULL)
        => \A f \in 1..Len(ast.functions) : Distinct(ParamNamesOf(ast.functions[f]))

-----------------------------------------------------------------------------
(* Properties of loops and branches in the emitted text                    *)

\* The k-th statement of the first function is "repeat .. as NAME" with the one
\* body statement "out NAME".
PrintsCounter(k) ==
    /\ FirstFunc.body[k].type = "NODE_REPEAT"
    /\ FirstFunc.body[k].var_name # NoName
    /\ FirstFunc.body[k].body =
           << [type |-> "NODE_OUT",
               value |-> [type |-> "NODE_VAR", name |-> FirstFunc.body[k].var_name]] >>

\* C13: a read of NAME in the body of "repeat N times as NAME" loads from the
\* counter slot of that loop, also when NAME was bound earlier in the function.
C13_BodyReadsCounter ==
    (pc = "generated" /\ gen.err = <<>> /\ NoUndefinedRead(ast))
        => \A k \in 1..Len(FirstFunc.body) :
              PrintsCounter(k) =>
                  \A i \in 2..Len(EmittedBy(k)) :
                      EmittedBy(k)[i].op = "printf" =>
                          /\ EmittedBy(k)[i - 1].op = "load"
                          /\ EmittedBy(k)[i - 1].args[1] = OpsOf(EmittedBy(k), "alloca")[1].dst

\* The k-th statement of the first function is an if whose arms are both
\* Return statements.
BothArmsReturn(k) ==
    /\ FirstFunc.body[k].type = "NODE_IF"
    /\ FirstFunc.body[k].then_stmt.type = "NODE_RETURN"
    /\ FirstFunc.body[k].else_stmt.type = "NODE_RETURN"

IsEndLabel(ins) == ins.op = "label" /\ ins.args[1].r = "end"

\* C16 as stated: an if/else whose arms both return emits no end label.
C16_NoEndLabel ==
    (pc = "generated" /\ gen.err = <<>> /\ NoUndefinedRead(ast))
        => \A k \in 1..Len(FirstFunc.body) :
              BothArmsReturn(k) => \A i \in 1..Len(EmittedBy(k)) : ~IsEndLabel(EmittedBy(k)[i])

\* The text of an if/else: one conditional branch to then and else, no other
\* branch, each arm ending in ret when the emitter has reported nothing, and
\* the end label as the last line.
ArmsThenEndLabel(text) ==
    LET labels == OpsOf(text, "label")
        at(kind) == CHOOSE i \in 1..Len(text) : text[i].op = "label" /\ text[i].args[1].r = kind
    IN /\ Len(labels) = 3
       /\ <<labels[1].args[1].r, labels[2].args[1].r, labels[3].args[1].r>>
              = <<"then", "else", "end">>
       /\ OpsOf(text, "br") = <<>>
       /\ Len(OpsOf(text, "br i1")) = 1
       /\ text[at("then") - 1].op = "br i1"
       /\ text[at("then") - 1].args[2] = labels[1].args[1]
       /\ text[at("then") - 1].args[3] = labels[2].args[1]
       /\ gen.err = <<>> => /\ text[at("else") - 1].op = "ret"
                            /\ text[at("end") - 1].op = "ret"
       /\ at("end") = Len(text)

\* C16 amended: an if/else whose arms both return emits the conditional branch
\* and the two arms, each the text of its return with no branch to the end
\* label, and then the end label all the same, as the last line of the
\* statement.
C16_EndLabelAfterReturns ==
    (pc = "generated")
        => \A k \in 1..Len(FirstFunc.body) : BothArmsReturn(k) => ArmsThenEndLabel(EmittedBy(k))

C16_Witness ==
    /\ pc = "generated"
    /\ tokens = <<Kw("TOK_FN"), Id(NameF), Id(NameA), NL,
                  Kw("TOK_IF"), Id(NameA), Kw("TOK_RET"), Kw("TOK_ONE"),
                  Kw("TOK_ELSE"), Kw("TOK_RET"), Kw("TOK_TWO"), NL, EOF>>
    /\ BothArmsReturn(1)
    /\ IsEndLabel(EmittedBy(1)[Len(EmittedBy(1))])

\* C19: every node of a parsed tree is live: none has been released.
C19_TreeIsLive ==
    (pc = "parsed") => ~HasFreed(ast)

-----------------------------------------------------------------------------
(* Properties of the stages of the compile command                          *)

\* What the lexer makes of the input file.
Lexed == lexer_tokenize(lexer_create(source.text))

\* A stage before the emitter has failed: the file cannot be read, the lexer
\* stops at a character, or the parser reports a missing token.
EarlyStageFailed == ~source.readable \/ ~Lexed.ok \/ diag # <<>> \/ (pc = "parse_failed")

\* C18: the stages run in the order read, lex, parse, emit and the first that
\* fails ends the run: once reading, lexing or parsing has failed the emitter is
\* not invoked, no output file is opened and nothing is emitted, and the command
\* returns 1; it returns 0 only after all four stages.
C18_FirstFailureEndsRun ==
    /\ (tokens # <<>>) => source.readable
    /\ (ast # NULL) => Lexed.ok /\ tokens = Lexed.tokens
    /\ EarlyStageFailed => /\ files = {}
                           /\ gen.out = <<>>
                           /\ pc \notin {"generated", "codegen_failed"}
                           /\ (pc = "exit" => status = 1)
    /\ (status = 0) => source.readable /\ Lexed.ok /\ ast # NULL /\ gen.out # <<>>

-----------------------------------------------------------------------------
(* Properties of the run command and of the executed text                   *)

\* C17: when cmd_run has returned, none of the four temporary files is left.
C17_TempFilesRemoved ==
    (pc = "run_exit") => files \cap TempFiles = {}

\* The entries of the history for one kind of label, in order.
VisitsOf(kind) == SelectSeq(child.hist, LAMBDA h : h.label.r = kind)

\* The visits of a label of that kind among the first i entries of the history.
VisitsBefore(kind, i) ==
    Cardinality({ j \in 1..(i - 1) : child.hist[j].label.r = kind })

\* The program is one function whose body holds one repeat statement, at the
\* top level, and the process executes it.
RunsOneRepeat ==
    /\ child.state # "none"
    /\ Len(ast.functions) = 1
    /\ Cardinality({ k \in 1..Len(FirstFunc.body) : FirstFunc.body[k].type = "NODE_REPEAT" }) = 1
    /\ \A k \in 1..Len(FirstFunc.body) : FirstFunc.body[k].type \notin {"NODE_IF", "NODE_WHILE"}

\* The comparison of the repeat statement, the register of its count and the
\* slot of its counter.
RepeatCmp == CHOOSE i \in 1..Len(gen.out) : gen.out[i].op = "fcmp ole"
CountReg == gen.out[RepeatCmp].args[2].n
CounterSlot == gen.out[RepeatCmp - 1].args[1]

\* The body of the loop stores to the counter's slot: the text has a store to
\* it besides the initial one and the increment's.
BodyStoresCounter ==
    Cardinality({ i \in 1..Len(gen.out) :
                    gen.out[i].op = "store" /\ gen.out[i].args[2] = CounterSlot }) > 2

\* The count is evaluated once, the body runs for the counter values 1, 2, ..
\* up to the count and for no other, the loop is left for loop_end after the
\* last of them, and the process does not run on without end.
RepeatRunsOneToN ==
    /\ Len(VisitsOf("entry")) <= 1
    /\ \A i \in 1..Len(child.hist) :
          LET h == child.hist[i]
              N == h.t[CountReg]
          IN /\ h.label.r = "loop_start" =>
                   /\ child.hist[i - 1].label.r \in {"entry", "loop_body"}
                   /\ child.hist[i - 1].label.r = "loop_body" => N = child.hist[i - 1].t[CountReg]
             /\ h.label.r = "loop_body" =>
                   /\ child.hist[i - 1].label.r = "loop_start"
                   /\ h.mem[CounterSlot.n] = VisitsBefore("loop_body", i) + 1
                   /\ h.mem[CounterSlot.n] <= N
             /\ h.label.r = "loop_end" =>
                   /\ child.hist[i - 1].label.r = "loop_start"
                   /\ VisitsBefore("loop_body", i) = IF N < 1 THEN 0 ELSE N
    /\ child.state = "running" => child.steps < MaxSteps

\* 1 + 2 + .. + n
RECURSIVE SumTo(_)
SumTo(n) == IF n < 1 THEN 0 ELSE n + SumTo(n - 1)

\* S3 with the count C: fn f n / let s zero / repeat C times as i / inc s i /
\* done / ret s.
S3(count) ==
    <<Kw("TOK_FN"), Id(NameF), Id(NameN), NL, Kw("TOK_LET"), Id(NameS), Kw("TOK_ZERO"), NL,
      Kw("TOK_REPEAT")>> \o count \o <<Kw("TOK_TIMES"), Kw("TOK_AS"), Id(NameI), NL,
      Kw("TOK_INC"), Id(NameS), Id(NameI), NL, Kw("TOK_DONE"), NL,
      Kw("TOK_RET"), Id(NameS), NL, EOF>>

\* What S3 prints for each count: f = 1 + .. + N, 15 for the parameter (5.0).
S3Returns ==
    /\ \A count \in RepeatCounts :
          (tokens = S3(count) /\ child.state = "exited")
              => child.stdout = <<[text |-> NameF,
                                   value |-> SumTo(child.hist[2].t[CountReg])]>>
    /\ (tokens = S3(<<Id(NameN)>>) /\ child.state = "exited")
          => child.stdout = <<[text |-> NameF, value |-> 15]>>

RunsOneWhile ==
    /\ child.state # "none"
    /\ Len(ast.functions) = 1
    /\ Cardinality({ k \in 1..Len(FirstFunc.body) : FirstFunc.body[k].type = "NODE_WHILE" }) = 1
    /\ \A k \in 1..Len(FirstFunc.body) : FirstFunc.body[k].type \notin {"NODE_IF", "NODE_REPEAT"}

WhileNode ==
    FirstFunc.body[CHOOSE k \in 1..Len(FirstFunc.body) : FirstFunc.body[k].type = "NODE_WHILE"]

\* The conditional branch of the while statement and the register that holds
\* the value of its condition.
WhileBr == CHOOSE i \in 1..Len(gen.out) : gen.out[i].op = "br i1"
CondReg == gen.out[WhileBr - 1].args[1].n

\* The value of a condition of these programs on the slots: the variable is the
\* first let of the function, in slot 0.
RECURSIVE ValueOf(_, _)
ValueOf(node, mem) ==
    CASE node.type = "NODE_VAR" -> mem[0]
      [] node.type = "NODE_NUM" -> node.value.int
      [] node.type = "NODE_BINOP" /\ node.op = <<"g","t">> ->
           IF ValueOf(node.left, mem) > ValueOf(node.right, mem) THEN 1 ELSE 0
      [] node.type = "NODE_BINOP" /\ node.op = <<"n","e","q">> ->
           IF ValueOf(node.left, mem) # ValueOf(node.right, mem) THEN 1 ELSE 0

\* Every entry of the body and every exit of the loop comes from while_start,
\* with the condition's value taken from the slots as they are then: non-zero
\* into the body, zero out of the loop; the body leads back to while_start.
WhileReevaluates ==
    \A i \in 1..Len(child.hist) :
       LET h == child.hist[i]
       IN /\ h.label.r = "while_start" =>
                child.hist[i - 1].label.r \in {"entry", "while_body"}
          /\ h.label.r = "while_body" =>
                /\ child.hist[i - 1].label.r = "while_start"
                /\ h.t[CondReg] = ValueOf(WhileNode.condition, h.mem)
                /\ h.t[CondReg] # 0
          /\ h.label.r = "while_end" =>
                /\ child.hist[i - 1].label.r = "while_start"
                /\ h.t[CondReg] = ValueOf(WhileNode.condition, h.mem)
                /\ h.t[CondReg] = 0

\* S5: fn h / let i ten / while i gt zero / dec i / done / ret i
S5 ==
    <<Kw("TOK_FN"), Id(NameH), NL, Kw("TOK_LET"), Id(NameI), Kw("TOK_TEN"), NL,
      Kw("TOK_WHILE"), Id(NameI), Kw("TOK_GT"), Kw("TOK_ZERO"), NL,
      Kw("TOK_DEC"), Id(NameI), NL, Kw("TOK_DONE"), NL, Kw("TOK_RET"), Id(NameI), NL, EOF>>

S5Ended ==
    /\ tokens = S5
    /\ child.state = "exited"
    /\ Len(VisitsOf("while_body")) = 10
    /\ child.stdout = <<[text |-> NameH, value |-> 0]>>

\* C15: the executed while loop evaluates its condition at while_start before
\* every iteration, enters the body exactly when the value is not zero and comes
\* back to while_start after the body; the process of S5, once started, ends
\* after ten iterations and h returns 0.
C15_WhileReevaluates ==
    /\ [](RunsOneWhile => WhileReevaluates)
    /\ (tokens = S5 /\ pc = "run_compiled") ~> S5Ended

C15_Witness ==
    /\ S5Ended
    /\ [i \in 1..10 |-> VisitsOf("while_body")[i].mem[0]] = <<10, 9, 8, 7, 6, 5, 4, 3, 2, 1>>


-----------------------------------------------------------------------------
(* Properties of the lexer                                                  *)

\* The text a token is written back as: a string literal between double
\* quotes, a newline as the newline character, the other tokens as their value.
Lexeme(t) ==
    IF t.type = "TOK_STRING" THEN <<"\"">> \o t.value \o <<"\"">>
    ELSE IF t.type = "TOK_NEWLINE" THEN <<"\n">>
    ELSE t.value

IsWord(t) == t.type \notin {"TOK_NEWLINE", "TOK_EOF"}

\* The lexemes in order, one space between two tokens that are not newlines.
RECURSIVE WriteBack(_)
WriteBack(toks) ==
    IF toks = <<>> THEN <<>>
    ELSE Lexeme(Head(toks))
            \o (IF Len(toks) >= 2 /\ IsWord(toks[1]) /\ IsWord(toks[2]) THEN <<" ">> ELSE <<>>)
            \o WriteBack(Tail(toks))

Kinds(toks) == [i \in 1..Len(toks) |-> toks[i].type]

\* C21: the tokens of an accepted source, written back as text, are accepted
\* again and give the same sequence of token kinds.
C21_RoundTrip ==
    (pc = "lexed") =>
        LET again == lexer_tokenize(lexer_create(WriteBack(tokens)))
        IN /\ again.ok
           /\ Kinds(again.tokens) = Kinds(tokens)

\* A number, a name and a string literal that touch in the source and are
\* written back apart.
C21_Witness ==
    /\ pc = "lexed"
    /\ Kinds(tokens) = <<"TOK_NUMBER", "TOK_IDENT", "TOK_STRING", "TOK_EOF">>
    /\ WriteBack(tokens) # source.text

\* The character at pos and the one after it (NUL past the end).
CharAt(i) == IF i >= 1 /\ i <= Len(source.text) THEN source.text[i] ELSE NUL

\* The double quotes after the opening quote at index o that no backslash
\* precedes, and the first of them (0 when there is none).
Unescaped(o) ==
    { j \in (o + 1)..Len(source.text) : CharAt(j) = "\"" /\ CharAt(j - 1) # "\\" }
Closing(o) ==
    IF Unescaped(o) = {} THEN 0
    ELSE CHOOSE j \in Unescaped(o) : \A k \in Unescaped(o) : j <= k

\* The literal that opens at index o is closed before a newline is reached.
Terminated(o) ==
    /\ Closing(o) # 0
    /\ \A k \in o..Closing(o) : CharAt(k) # "\n"

\* No token and no comment starts with c followed by next, and c is no blank.
StartsNoToken(c, next) ==
    /\ c \notin {" ", "\t", "\r", "\n", "#", "\""}
    /\ ~is_digit(c)
    /\ ~is_alpha(c)
    /\ ~(c = "-" /\ next = "-")

AtString == pc = "lexing" /\ CharAt(pos + 1) = "\""
AtNoToken ==
    pc = "lexing" /\ pos < Len(source.text) /\ StartsNoToken(CharAt(pos + 1), CharAt(pos + 2))

\* C22: a string literal ends at the first double quote that no backslash
\* precedes, and its token holds the text between; when a newline or the end
\* of the input comes first, and when a character starts no token, lexing
\* fails with no token added, and a failed run has no TOK_EOF token.
C22_StringsAndUnknownCharacters ==
    /\ [][AtString /\ Terminated(pos + 1) =>
             /\ pc' = "lexing"
             /\ pos' = Closing(pos + 1)
             /\ tokens' = Append(tokens,
                                 StrTok(SubSeq(source.text, pos + 2, Closing(pos + 1) - 1)))]_vars
    /\ [][AtString /\ ~Terminated(pos + 1) => pc' = "lex_failed" /\ tokens' = tokens]_vars
    /\ [][AtNoToken => pc' = "lex_failed" /\ tokens' = tokens]_vars
    /\ [](pc = "lex_failed" => \A i \in 1..Len(tokens) : tokens[i].type # "TOK_EOF")

\* A literal whose only later quote is escaped reaches the end of the input.
C22_Witness ==
    /\ pc = "lex_failed"
    /\ \E o \in 1..Len(source.text) :
          /\ CharAt(o) = "\""
          /\ CharAt(o + 1) = "\\"
          /\ CharAt(o + 2) = "\""
          /\ Unescaped(o) = {}
    /\ pos = Len(source.text)

\* The lines of a text: what stands between its newline characters.
RECURSIVE LinesOf(_)
LinesOf(text) ==
    IF \A i \in 1..Len(text) : text[i] # "\n" THEN <<text>>
    ELSE LET n == CHOOSE i \in 1..Len(text) :
                      text[i] = "\n" /\ \A j \in 1..(i - 1) : text[j] # "\n"
         IN <<SubSeq(text, 1, n - 1)>> \o LinesOf(SubSeq(text, n + 1, Len(text)))

\* The tokens of one line, without the TOK_EOF that ends them.
LineTokens(line) ==
    LET one == lexer_tokenize(lexer_create(line)).tokens
    IN SubSeq(one, 1, Len(one) - 1)

\* The tokens of the lines in order, one TOK_NEWLINE between two lines.
RECURSIVE JoinLines(_)
JoinLines(ls) ==
    IF Len(ls) = 1 THEN LineTokens(ls[1])
    ELSE LineTokens(ls[1]) \o <<NL>> \o JoinLines(Tail(ls))

AtComment ==
    /\ pc = "lexing"
    /\ \/ CharAt(pos + 1) = "#"
       \/ CharAt(pos + 1) = "-" /\ CharAt(pos + 2) = "-"

\* The index of the first newline after index i, the length when none follows.
LineEnd(i) ==
    IF \E j \in (i + 1)..Len(source.text) : CharAt(j) = "\n"
    THEN (CHOOSE j \in (i + 1)..Len(source.text) :
              CharAt(j) = "\n" /\ \A k \in (i + 1)..(j - 1) : CharAt(k) # "\n") - 1
    ELSE Len(source.text)

HasCommentSign(text) ==
    \E i \in 1..Len(text) :
        text[i] = "#" \/ (i < Len(text) /\ text[i] = "-" /\ text[i + 1] = "-")

\* C30: the tokens of an accepted source end with the only TOK_EOF and hold
\* one TOK_NEWLINE for each newline character, in the order of the source (they
\* are the tokens of the lines with a TOK_NEWLINE between two lines); a comment
\* adds no token and ends in front of the next newline; a string literal
\* holding a comment sign is one TOK_STRING token.
C30_EofNewlinesComments ==
    /\ [](pc = "lexed" =>
            /\ tokens[Len(tokens)] = EOF
            /\ \A i \in 1..(Len(tokens) - 1) : tokens[i].type # "TOK_EOF"
            /\ Cardinality({ i \in 1..Len(tokens) : tokens[i].type = "TOK_NEWLINE" })
                  = Cardinality({ i \in 1..Len(source.text) : CharAt(i) = "\n" })
            /\ tokens = JoinLines(LinesOf(source.text)) \o <<EOF>>)
    /\ [][AtComment => pc' = "lexing" /\ tokens' = tokens /\ pos' = LineEnd(pos)]_vars
    /\ [][(AtString /\ pc' = "lexing"
                    /\ HasCommentSign(SubSeq(source.text, pos + 2, pos' - 1)))
             => tokens' = Append(tokens, StrTok(SubSeq(source.text, pos + 2, pos' - 1)))]_vars

\* A string literal holding a hash, and a comment after it.
C30_Witness ==
    /\ pc = "lexed"
    /\ source.text = <<"\"", "#", "\"", "#">>
    /\ tokens = <<StrTok(<<"#">>), EOF>>

-----------------------------------------------------------------------------
(* Properties of the names in the emitted text                              *)

\* The lines of the emitted functions: from each define line to its brace.
FunctionTexts ==
    { SubSeq(gen.out, d, BraceAfter(gen.out, d)) :
        d \in { i \in 1..Len(gen.out) : gen.out[i].op = "define" } }

\* Every %t and %local of the text has one defining line, an alloca for a
\* %local, and every %t that is an operand has a defining line in the text.
SingleAssignment(text) ==
    /\ \A i, j \in 1..Len(text) :
          (text[i].dst.r \in {"t", "local"} /\ text[i].dst = text[j].dst) => i = j
    /\ \A i \in 1..Len(text) : text[i].dst.r = "local" => text[i].op = "alloca"
    /\ \A i \in 1..Len(text) : \A a \in 1..Len(text[i].args) :
          text[i].args[a].r = "t" => \E j \in 1..Len(text) : text[j].dst = text[i].args[a]

\* C23: in each emitted function every %tK and every %localK is defined by
\* one instruction, a %localK by an alloca, and every %tK used as an operand
\* is defined in the function.
C23_SingleAssignment ==
    (pc = "generated" /\ NoUndefinedRead(ast)) =>
        \A text \in FunctionTexts : SingleAssignment(text)

\* C27: every entry of the locals table below local_count has had its name
\* and its slot written, repeat loops without 'as' included.
C27_LocalsWritten ==
    pc \in {"generated", "codegen_failed"} =>
        \A i \in 1..Len(gen.locals) : gen.locals[i].init

\* The texts that runs of the emitter on one tree can write, one for each
\* outcome of its undefined reads that lets the run finish.
IRTexts(program) ==
    { codegen_llvm(program, ub).cg.out :
        ub \in { u \in UBChoices(program) : ~codegen_llvm(program, u).cg.crashed } }

\* C24: two runs of compile on the same source give the same tokens, the same
\* tree and the same IR text, whatever earlier functions or runs left behind.
C24_Deterministic ==
    pc = "parsed" =>
        /\ ast = parser_parse(tokens).node
        /\ Cardinality(IRTexts(ast)) <= 1

-----------------------------------------------------------------------------
(* Properties of blocks and of conditions                                   *)

\* The open blocks after the tokens from index i on, read with the stack of
\* open blocks given ("if": an if block before its else, "else": after it,
\* "loop": a repeat or while body) and the number of statements met outside
\* every block; ok is FALSE once an else or a done matches no open block.
RECURSIVE Nesting(_, _, _, _)
Nesting(toks, i, open, top) ==
    IF i > Len(toks) THEN [ok |-> TRUE, open |-> open, top |-> top]
    ELSE LET t == toks[i].type
             outside == IF open = <<>> THEN top + 1 ELSE top
             inner == IF open = <<>> THEN "none" ELSE open[Len(open)]
             rest == SubSeq(open, 1, Len(open) - 1)
         IN CASE t = "TOK_IF" -> Nesting(toks, i + 1, Append(open, "if"), outside)
              [] t \in {"TOK_REPEAT", "TOK_WHILE"} ->
                    Nesting(toks, i + 1, Append(open, "loop"), outside)
              [] t \in {"TOK_RET", "TOK_OUT"} -> Nesting(toks, i + 1, open, outside)
              [] t = "TOK_ELSE" ->
                    IF inner # "if" THEN [ok |-> FALSE, open |-> open, top |-> top]
                    ELSE IF toks[i + 1].type = "TOK_IF" THEN Nesting(toks, i + 2, open, top)
                    ELSE Nesting(toks, i + 1, Append(rest, "else"), top)
              [] t = "TOK_DONE" ->
                    IF open = <<>> THEN [ok |-> FALSE, open |-> open, top |-> top]
                    ELSE Nesting(toks, i + 1, rest, top)
              [] OTHER -> Nesting(toks, i + 1, open, top)

\* The body of the function, from the token after the "fn f a" line on.
BodyNesting == Nesting(tokens, 5, <<>>, 0)

\* Every block of the body is closed by its own 'done'.
WellNested == BodyNesting.ok /\ BodyNesting.open = <<>>

HasElseIf ==
    \E i \in 1..(Len(tokens) - 1) :
        tokens[i].type = "TOK_ELSE" /\ tokens[i + 1].type = "TOK_IF"

\* C25: a body whose if blocks, else-if chains and loops are each closed by
\* one 'done' is parsed to the end with no diagnostic, and the statements
\* outside every block are the statements of the function.
C25_OneDonePerBlock ==
    (pc # "start" /\ WellNested) =>
        /\ ast # NULL
        /\ diag = <<>>
        /\ pos = Len(tokens) - 1
        /\ Len(FirstFunc.body) = BodyNesting.top

\* C26: every If node of a tree that parser_parse returns without a
\* diagnostic has a then statement, also the one of an if block with no
\* statement.
C26_ThenBranchPresent ==
    (pc = "parsed" /\ diag = <<>>) => ~HasNullArm(ast)

\* The conditions of the if and while statements of the function's body.
Conditions ==
    { FirstFunc.body[i].condition :
        i \in { j \in 1..Len(FirstFunc.body) :
                   FirstFunc.body[j].type \in {"NODE_IF", "NODE_WHILE"} } }

IsLogical(node) == node.type = "NODE_BINOP" /\ node.op \in {<<"a","n","d">>, <<"o","r">>}

\* The cursor at the first word of the condition, and the cursor at the first
\* 'and' of the input (0 when there is none).
CondStart == R(NULL, 5, <<>>)
FirstAnd ==
    LET hits == { i \in 1..Len(tokens) : tokens[i].type = "TOK_AND" }
    IN IF hits = {} THEN 0 ELSE (CHOOSE i \in hits : \A j \in hits : i <= j) - 1

\* The input reads 'if A and ...' or 'while A and ...' with A a comparison.
ComparisonThenAnd ==
    /\ FirstAnd > 5
    /\ parse_comparison(tokens, CondStart).node # NULL
    /\ parse_comparison(tokens, CondStart).pos = FirstAnd

\* C28: the condition of an if or a while is never an 'and' or an 'or' node;
\* in 'if A and B STMT' the condition read is A, the statement is then parsed
\* from the word 'and', and the parse fails there.
C28_ConditionIsComparison ==
    pc # "start" =>
        /\ ast # NULL => \A c \in Conditions : ~IsLogical(c)
        /\ ComparisonThenAnd =>
              /\ ast = NULL
              /\ pos = FirstAnd
              /\ diag = <<"Unexpected token in expression">>

\* 'if a lt one and a ret one' has been parsed.
C28_Witness ==
    /\ pc = "parse_failed"
    /\ ComparisonThenAnd
    /\ tokens[5].type = "TOK_IF"
    /\ parse_comparison(tokens, CondStart).node = BinOp(<<"l","t">>, [type |-> "NODE_VAR", name |-> NameA], [type |-> "NODE_NUM", value |-> [int |-> 1, frac |-> <<>>]])
    /\ tokens[FirstAnd + 3].type = "TOK_RET"

-----------------------------------------------------------------------------
(* Properties of the parser's loops                                        *)

\* The cursor on token p (counted from 0, the last one being the end of input)
\* with nothing reported yet.
Cursor(p) == R(NULL, p, <<>>)
LastIndex == Len(tokens) - 1
Cursors == 0..LastIndex
BlockOpeners == {"TOK_IF", "TOK_REPEAT", "TOK_WHILE"}

\* What one pass of a loop that started on token p has returned: the cursor is
\* not beyond the end of input, and it is beyond p unless the pass failed.
Advances(p, r) == r.pos <= LastIndex /\ (r.node # NULL => r.pos > p)

\* C29: from every token of the input, one pass of each of the parser's loops
\* (a statement of a body or a block, an argument of a call, a parameter, a
\* field, a definition, a newline) moves the cursor forward or fails, and
\* leaves it on or before the end of input; parser_parse, once it has run,
\* has left the cursor on or before the end of input, and on it when it
\* returned a tree.
C29_ParserTerminates ==
    /\ pc = "start" =>
          /\ \A p \in Cursors : tokens[p + 1].type \notin BlockOpeners =>
                /\ Advances(p, parse_stmt(tokens, Cursor(p)))
                /\ Advances(p, parse_unary(tokens, Cursor(p)))
          /\ \A p \in Cursors : tokens[p + 1].type \in BlockOpeners =>
                Advances(p, parse_stmt(tokens, Cursor(p)))
          /\ \A p \in Cursors :
                /\ parse_params(tokens, Cursor(p), <<>>).pos \in p..LastIndex
                /\ skip_struct_fields(tokens, Cursor(p)).pos \in p..LastIndex
                /\ parser_skip_newlines(tokens, Cursor(p)).pos \in p..LastIndex
                /\ tokens[p + 1].type # "TOK_EOF" => Advanced(tokens, Cursor(p)).pos = p + 1
                /\ tokens[p + 1].type = "TOK_EOF" => Advanced(tokens, Cursor(p)).pos = p
                /\ tokens[p + 1].type = "TOK_FN" =>
                      Advances(p, parse_func_def(tokens, Cursor(p)))
                /\ tokens[p + 1].type = "TOK_TYPE" =>
                      Advances(p, parse_type_def(tokens, Cursor(p)))
    /\ pc # "start" =>
          /\ pos <= LastIndex
          /\ ast # NULL => pos = LastIndex

\* A function with a call of two arguments and then a loop has been parsed.
C29_Witness ==
    /\ pc = "parsed"
    /\ ast # NULL
    /\ Len(FirstFunc.body) = 2
    /\ FirstFunc.body[1].type = "NODE_EXPR_STMT"
    /\ FirstFunc.body[1].expr.type = "NODE_CALL"
    /\ Len(FirstFunc.body[1].expr.args) = 2
    /\ FirstFunc.body[2].type = "NODE_WHILE"
    /\ pos = LastIndex

=============================================================================
